---- MODULE Spec2Model ----
(***************************************************************************)
(* The real-time voice session protocol of the python backend:            *)
(* websocket_unified (server.py) with its turn coroutine                   *)
(* process_transcription_and_respond, and the inference facade            *)
(* VoicePipeline (services/pipeline.py) with its process-wide mlx_lock.    *)
(* One step of the model is one run of a coroutine between two awaits of   *)
(* the asyncio event loop, or one step of a worker thread.                 *)
(***************************************************************************)
EXTENDS Integers, Sequences, FiniteSets, TLC

\* ---------------------------------------------------------------- bounds
\* client messages sent over all connections
MaxMsgs == 4
\* messages a client may have in flight (sent, not yet received by the handler)
MaxInFlight == 1
\* audio chunks the speech engine yields for one response
NChunks == 3
\* injected faults: failed log writes and exceptions raised by an engine
MaxFaults == 1

\* ------------------------------------------------------ program constants
CHUNK_SAMPLES == 2880
OUTPUT_SAMPLE_RATE == 24000
PREBUFFER_MS == 300
INPUT_SAMPLE_RATE == 16000
VAD_FRAME_MS == 30
MAX_HISTORY_MESSAGES == 30

\* bytes of one synthesized chunk of int16 samples (tts.py: audio_chunk.tobytes())
CHUNK_BYTES == CHUNK_SAMPLES * 2
\* int(pipeline.output_sample_rate * (PREBUFFER_MS / 1000.0) * 2)
PREBUFFER_BYTES == (OUTPUT_SAMPLE_RATE * PREBUFFER_MS * 2) \div 1000
\* int(1.5 / (vad_frame_ms / 1000))
SILENCE_FRAMES == 1500 \div VAD_FRAME_MS

Sessions == {"d", "e"}
CLIENT_TYPE_DESKTOP == "desktop"
CLIENT_TYPE_ESP32 == "esp32"

VARIABLES
    \* transport and handler
    client_type,       \* per connection: desktop or esp32
    conn,              \* "none" (not yet connected), "open", "closed" (client gone)
    inbox,             \* messages sent by the client, not yet received
    hpc,               \* position of websocket_unified
    exitCause,         \* why the handler left its receive loop
    audio_buffer,      \* desktop: decoded audio payloads since the last flush
    audio_data,        \* desktop: payload of the audio message being handled
    full_audio,        \* argument of the transcribe call
    cancel_event,      \* asyncio.Event shared by handler, turn and TTS thread
    ws_open,
    current_tts_task,  \* desktop: the handler's reference to the response task
    \* the turn coroutine (desktop: the response task; esp32: awaited inline)
    tpc,
    turn,              \* number of the latest turn (0 = greeting)
    overlap,           \* a response task was created while another was unsettled
    convos,            \* history read by _build_llm_context
    llm_messages,      \* context handed to the language model
    log,               \* conversations table, per session, in insertion order
    sent,              \* messages sent to the client
    buffered,          \* desktop prebuffer, in bytes
    started,
    cancelAt,          \* when the client signalled cancellation in this turn
    intrAt,            \* chunks already sent when the device sent INTERRUPT
    \* inference facade
    mlx_lock,          \* "free" or the session whose coroutine holds it
    thread,            \* worker thread the session's coroutine awaits
    orphans,           \* worker threads still running whose awaiter was cancelled
    other,             \* another caller of the facade (HTTP endpoint, other session)
    tq,                \* audio_queue of synthesize_speech
    tgen,              \* chunks produced so far by the TTS thread
    agen,              \* the synthesize_speech generator: none, active, closing
    syn_cancel,        \* whether the generator was given the cancel_event
    observed,          \* the stream has observed the cancellation flag
    \* esp32 segmenter
    speech_frames,     \* accumulated frames
    is_speaking,
    silence_count,
    frames_left,       \* frames of the current binary message not yet classified
    via,               \* how the utterance was finalized: "vad" or "manual"
    seg_last,          \* the last input of the segmenter and whether it made it
                       \* finalize an utterance (ghost)
    \* budgets
    nmsg,
    faults,
    \* process-wide state
    pipeline,           \* the global `pipeline`: "none" (None), or the facade whose
                        \* models are "loading", "ready" or "failed" to load
    ready_at_accept,    \* per connection: the value of pipeline when it was accepted
    ESP32_WS,           \* the device slot: "none" or the connection it holds
    active_connections, \* the desktop connections of the ConnectionManager
    sessions,           \* the sessions table: one row per session id
    clock,              \* time.time()
    db,                 \* the personalities table, the users table and the
                        \* active user of the settings
    personality_id,     \* per connection: the personality resolved at connect
    end_calls,          \* per session id: the times of the completed calls of
                        \* end_session (ghost)
    since,              \* desktop: the audio payloads received since the last
                        \* end_of_speech or cancel (ghost)
    \* voices
    voice_store,        \* the voices table, the stored row of the session's user
                        \* and the voice of the session's personality
    resolved_voice_id,  \* the voice of the latest synthesis call
    \* model hot-swap
    pipeline_models,    \* pipeline.llm and pipeline.tokenizer, by model version
    switch,             \* the switch_model request: its position and new model
    gen,                \* per session, its generate_response call: its position,
                        \* the tokenizer that built its prompt, the model and
                        \* tokenizer it runs
    lock_waiters,       \* the callers waiting for mlx_lock, first come first
    \* spoken text
    utterance,          \* a text and the allow_paralinguistic it is sanitized with
    spoken,             \* the results of sanitizing it, and of sanitizing the
                        \* result again
    generated,          \* per session: what the latest generate_response of a
                        \* turn gave, and the token and the transport flag that
                        \* the guard after it read (ghost)
    at_end,             \* per session: its log, the messages sent to it and
                        \* whether its response task was unsettled, as its
                        \* `finally` found them (ghost)
    esp32_device,       \* the setting esp32_device: the persisted device status
    framer              \* esp32, by offsets into the bytes received: the bytes
                        \* in audio_buffer, the position of the handler, and
                        \* the frames classified so far (ghost)

hVars == <<client_type, conn, inbox, hpc, exitCause, audio_buffer, audio_data,
           full_audio, cancel_event, ws_open, current_tts_task>>
tVars == <<tpc, turn, overlap, convos, llm_messages, log, sent, buffered, started,
           cancelAt, intrAt>>
iVars == <<mlx_lock, thread, orphans, other, tq, tgen, agen, syn_cancel, observed>>
eVars == <<speech_frames, is_speaking, silence_count, frames_left, via, seg_last>>
bVars == <<nmsg, faults>>
gVars == <<pipeline, ready_at_accept, ESP32_WS, active_connections, sessions, clock,
           end_calls, db, personality_id>>
sVars == <<pipeline_models, switch, gen, lock_waiters>>
pVars == <<voice_store, resolved_voice_id, sVars, utterance, spoken>>
oVars == <<generated, framer, esp32_device, at_end>>
qVars == <<pVars, oVars>>
vars == <<hVars, tVars, iVars, eVars, bVars, gVars, since, qVars>>

IsEsp32(s) == client_type[s] = CLIENT_TYPE_ESP32

\* ------------------------------------------------------------- messages
DesktopMsgs == {"audio", "end_of_speech", "cancel", "config"}
\* a binary message is a sequence of classified 30 ms frames (TRUE = speech)
SpeechMsg == <<TRUE>>
SilenceMsg == [i \in 1..(SILENCE_FRAMES + 1) |-> FALSE]
Esp32Msgs == {"speech", "silence", "end_of_speech", "INTERRUPT"}
MsgKinds(s) == IF IsEsp32(s) THEN Esp32Msgs ELSE DesktopMsgs

\* the end marker None of the audio queue; chunks are numbered from 1
END == 0

\* log entries and sent messages
Entry(role, k) == <<role, k>>
Msg(type, k, n, late) == [type |-> type, turn |-> k, n |-> n, late |-> late]

\* websocket send: raises once the client is gone
SendOK(s) == conn[s] = "open"
Send(s, out, m) == IF SendOK(s) THEN Append(out, m) ELSE out

RECURSIVE SumN(_)
SumN(ms) == IF ms = <<>> THEN 0 ELSE Head(ms).n + SumN(Tail(ms))
SelectMsgs(s, type, k) == SelectSeq(sent[s], LAMBDA m : m.type = type /\ m.turn = k)
\* chunks of audio of turn k sent to the client
AudioChunks(s, k) == SumN(SelectMsgs(s, "audio", k))

\* threads executing an inference computation
Running(s) == thread[s] \in {"stt", "llm", "tts"}
NumRunning ==
    Cardinality({s \in Sessions : Running(s)}) + orphans
        + (IF other = "run" THEN 1 ELSE 0)

\* SQL NULL
NULL == -1
\* a session id without a row in the sessions table
\* ------------------------------------------------- personalities and users
MaxRows == 2
\* model versions loaded by switch_model
MaxVersions == 3
\* pieces of a text to speak
MaxText == 5
\* binary messages of an esp32 connection
MaxBinary == 4

\* a rowid without a row in the personalities table
NoPersonality == [exists |-> FALSE, type |-> "personality", is_visible |-> FALSE,
                  created_at |-> 1]
\* the rows a personalities table can hold at a rowid (the id of a row is its
\* rowid); is_visible stands for the whole visibility filter of get_experiences;
\* a row was created at the earlier or at the later of two times
PersonalityRows ==
    {NoPersonality} \cup
    [exists : {TRUE}, type : {"personality", "game"}, is_visible : BOOLEAN,
     created_at : {1, 2}]
\* the ids a setting can hold: none, the id of a rowid, an id without a row
Refs == {NULL} \cup (1..(MaxRows + 1))

NoUser == [exists |-> FALSE, current_personality_id |-> NULL,
           default_profile_id |-> NULL, profiles |-> <<>>,
           default_personality_id |-> NULL]
\* the lists of profiles of the preferences: no profile, or the profile 1
ProfileLists ==
    {<<>>} \cup {<<[id |-> 1, personality_id |-> r]>> : r \in Refs}
Users ==
    {NoUser} \cup
    [exists : {TRUE}, current_personality_id : Refs,
     default_profile_id : {NULL, 1, 2},
     profiles : ProfileLists, default_personality_id : Refs]
Databases ==
    [personalities : [1..MaxRows -> PersonalityRows],
     active_user_id : {NULL, 1}, user : Users]

NoRow == [exists |-> FALSE, started_at |-> NULL, ended_at |-> NULL,
          duration_sec |-> NULL]

\* the client_type query parameter of each connection
OneOfEach == [s \in Sessions |->
                IF s = "e" THEN CLIENT_TYPE_ESP32 ELSE CLIENT_TYPE_DESKTOP]

InitAll(live, pl, types, dbs) ==
    /\ db \in dbs
    /\ personality_id = [s \in Sessions |-> NULL]
    /\ client_type = types
    /\ conn = [s \in Sessions |-> IF s \in live THEN "none" ELSE "absent"]
    /\ inbox = [s \in Sessions |-> <<>>]
    /\ hpc = [s \in Sessions |-> "init"]
    /\ exitCause = [s \in Sessions |-> "none"]
    /\ audio_buffer = [s \in Sessions |-> <<>>]
    /\ audio_data = [s \in Sessions |-> 0]
    /\ full_audio = [s \in Sessions |-> <<>>]
    /\ cancel_event = [s \in Sessions |-> FALSE]
    /\ ws_open = [s \in Sessions |-> TRUE]
    /\ current_tts_task = [s \in Sessions |-> "none"]
    /\ tpc = [s \in Sessions |-> "idle"]
    /\ turn = [s \in Sessions |-> 0]
    /\ overlap = [s \in Sessions |-> FALSE]
    /\ convos = [s \in Sessions |-> <<>>]
    /\ llm_messages = [s \in Sessions |-> <<>>]
    /\ log = [s \in Sessions |-> <<>>]
    /\ sent = [s \in Sessions |-> <<>>]
    /\ buffered = [s \in Sessions |-> 0]
    /\ started = [s \in Sessions |-> FALSE]
    /\ cancelAt = [s \in Sessions |-> "none"]
    /\ intrAt = [s \in Sessions |-> -1]
    /\ mlx_lock = "free"
    /\ thread = [s \in Sessions |-> "none"]
    /\ orphans = 0
    /\ other = "idle"
    /\ tq = [s \in Sessions |-> <<>>]
    /\ tgen = [s \in Sessions |-> 0]
    /\ agen = [s \in Sessions |-> "none"]
    /\ syn_cancel = [s \in Sessions |-> FALSE]
    /\ observed = [s \in Sessions |-> FALSE]
    /\ speech_frames = [s \in Sessions |-> <<>>]
    /\ is_speaking = [s \in Sessions |-> FALSE]
    /\ silence_count = [s \in Sessions |-> 0]
    /\ frames_left = [s \in Sessions |-> <<>>]
    /\ via = [s \in Sessions |-> "none"]
    /\ seg_last = [s \in Sessions |-> [input |-> "none", emitted |-> FALSE]]
    /\ nmsg = 0
    /\ faults = 0
    /\ pipeline = pl
    /\ ready_at_accept = [s \in Sessions |-> "none"]
    /\ ESP32_WS = "none"
    /\ active_connections = {}
    /\ sessions = [s \in Sessions |-> NoRow]
    /\ clock = 1
    /\ end_calls = [s \in Sessions |-> <<>>]
    /\ since = [s \in Sessions |-> <<>>]

\* a database without personalities and without users
EmptyDb ==
    [personalities |-> [i \in 1..MaxRows |-> NoPersonality],
     active_user_id |-> NULL, user |-> NoUser]

\* None, NULL or the empty string where a voice id or a profile id is expected
NoVoice == ""

\* no text to speak
NoText == [text |-> <<>>, allow_paralinguistic |-> TRUE]

\* no voice installed, no user, a personality without a voice
NoVoices == [voices |-> <<>>, user |-> [exists |-> FALSE], personality |-> NoVoice]

\* no synthesis call yet, the model of init_models loaded, no request to switch
\* it and no generate call
QInit(stores, texts) ==
    /\ voice_store \in stores
    /\ utterance \in texts
    /\ spoken = <<>>
    /\ at_end = [s \in Sessions |-> [log |-> <<>>, sent |-> <<>>, task |-> FALSE]]
    /\ esp32_device = [ws_status |-> "disconnected", session_id |-> "none"]
    /\ framer = [pc |-> "recv", lo |-> 0, hi |-> 0, received |-> 0, messages |-> 0,
                 classified |-> <<>>, base |-> 0, before |-> 0]
    /\ generated = [s \in Sessions |-> [r |-> "none", cancel |-> FALSE, open |-> TRUE]]
    /\ resolved_voice_id = "unset"
    /\ pipeline_models = [llm |-> 1, tokenizer |-> 1]
    /\ switch = [pc |-> "idle", new |-> NULL]
    /\ gen = [s \in Sessions |->
                [pc |-> "idle", prompt |-> NULL, llm |-> NULL, tokenizer |-> NULL]]
    /\ lock_waiters = <<>>

InitWith(live, pl, types) == InitAll(live, pl, types, {EmptyDb}) /\ QInit({NoVoices}, {NoText})

InitState(live, pl) == InitWith(live, pl, OneOfEach)

\* the models were loaded before the first connection is made
InitFor(live) == InitState(live, "ready")

\* ------------------------------------------------------------ environment
\* The client sends one message; it is delivered to the handler in order.
ClientSend(s, m) ==
    /\ conn[s] = "open"
    /\ nmsg < MaxMsgs
    /\ Len(inbox[s]) < MaxInFlight
    /\ m \in MsgKinds(s)
    /\ inbox' = [inbox EXCEPT ![s] = Append(@, [kind |-> m, id |-> nmsg + 1])]
    /\ nmsg' = nmsg + 1
    /\ intrAt' = [intrAt EXCEPT ![s] =
                    IF m = "INTERRUPT" /\ tpc[s] = "syn_run" /\ @ = -1
                       THEN AudioChunks(s, turn[s]) ELSE @]
    /\ UNCHANGED <<client_type, conn, hpc, exitCause, audio_buffer, audio_data,
                   full_audio, cancel_event, ws_open, current_tts_task>>
    /\ UNCHANGED <<tpc, turn, overlap, convos, llm_messages, log, sent, buffered,
                   started, cancelAt>>
    /\ UNCHANGED <<iVars, eVars, faults>>
    /\ UNCHANGED <<gVars, since, qVars>>

\* The client goes away: from now on every send raises and, once the queued
\* messages are consumed, receive reports the disconnect.
ClientDrop(s) ==
    /\ conn[s] = "open"
    /\ conn' = [conn EXCEPT ![s] = "closed"]
    /\ UNCHANGED <<client_type, inbox, hpc, exitCause, audio_buffer, audio_data,
                   full_audio, cancel_event, ws_open, current_tts_task>>
    /\ UNCHANGED <<tVars, iVars, eVars, bVars>>
    /\ UNCHANGED <<gVars, since, qVars>>

\* ------------------------------------------------------ inference facade
\* `async with self.mlx_lock` followed by asyncio.to_thread: the caller takes the
\* lock when it is free and starts the worker thread, else it waits.
LockFree == mlx_lock = "free"

\* A worker thread whose awaiting coroutine was cancelled runs to its end.
OrphanFinish ==
    /\ orphans > 0
    /\ orphans' = orphans - 1
    /\ UNCHANGED <<mlx_lock, thread, other, tq, tgen, agen, syn_cancel, observed>>
    /\ UNCHANGED <<hVars, tVars, eVars, bVars>>
    /\ UNCHANGED <<gVars, since, qVars>>

\* Another caller of the facade (generate_text_simple of an HTTP endpoint, an
\* inference call of another session): `async with self.mlx_lock:
\* await asyncio.to_thread(...)`.
OtherStart ==
    /\ other = "idle"
    /\ LockFree
    /\ mlx_lock' = "other"
    /\ other' = "run"
    /\ UNCHANGED <<thread, orphans, tq, tgen, agen, syn_cancel, observed>>
    /\ UNCHANGED <<hVars, tVars, eVars, bVars>>
    /\ UNCHANGED <<gVars, since, qVars>>

OtherDone ==
    /\ other = "run"
    /\ mlx_lock' = "free"
    /\ other' = "idle"
    /\ UNCHANGED <<thread, orphans, tq, tgen, agen, syn_cancel, observed>>
    /\ UNCHANGED <<hVars, tVars, eVars, bVars>>
    /\ UNCHANGED <<gVars, since, qVars>>

\* _tts_stream, one iteration: the engine yields the next chunk (or raises), the
\* thread checks the cancel_event and either stops or queues the chunk; after the
\* last chunk it queues the end marker None.
TtsStep(s, raises) ==
    /\ thread[s] = "tts"
    /\ raises => faults < MaxFaults
    /\ faults' = IF raises THEN faults + 1 ELSE faults
    /\ LET stop == syn_cancel[s] /\ cancel_event[s]
           last == tgen[s] + 1 >= NChunks
           consumed == agen[s] = "active" /\ tpc[s] # "syn_drain"
           items == IF stop THEN <<END>>
                    ELSE IF last THEN <<tgen[s] + 1, END>>
                    ELSE <<tgen[s] + 1>>
       IN  IF raises
           THEN /\ thread' = [thread EXCEPT ![s] = "raised"]
                /\ UNCHANGED <<tq, tgen, observed>>
           ELSE /\ thread' = [thread EXCEPT ![s] =
                                IF stop \/ last THEN "none" ELSE "tts"]
                /\ tgen' = [tgen EXCEPT ![s] = IF stop THEN @ ELSE @ + 1]
                /\ tq' = [tq EXCEPT ![s] = IF consumed THEN @ \o items ELSE @]
                /\ observed' = [observed EXCEPT ![s] = @ \/ stop]
    /\ UNCHANGED <<mlx_lock, orphans, other, agen, syn_cancel>>
    /\ UNCHANGED <<hVars, tVars, eVars, nmsg>>
    /\ UNCHANGED <<gVars, since, qVars>>

\* The finalizer of a synthesize_speech generator that was left suspended (the
\* consumer broke out of its loop or was cancelled): `finally: await tts_task`,
\* then the lock is released.
AgenClose(s) ==
    /\ agen[s] = "closing"
    /\ ~Running(s)
    /\ agen' = [agen EXCEPT ![s] = "none"]
    /\ thread' = [thread EXCEPT ![s] = "none"]
    /\ mlx_lock' = "free"
    /\ UNCHANGED <<orphans, other, tq, tgen, syn_cancel, observed>>
    /\ UNCHANGED <<hVars, tVars, eVars, bVars>>
    /\ UNCHANGED <<gVars, since, qVars>>

\* ------------------------------------------------- connect and greeting
\* ConnectionManager.connect and disconnect: the set of desktop connections
\* (services/ws_manager.py is not among the sources; from the description of
\* the registry: "an unbounded set for desktop connections")
ManagerConnect(active, s) == active \cup {s}
ManagerDisconnect(active, s) == active \ {s}

\* the truth value python gives a column: None and 0 are false
Truthy(x) == x # NULL /\ x # 0

\* db_service.get_active_user_id
get_active_user_id(d) == d.active_user_id
\* db_service.get_user: the only user has id 1
get_user(d, user_id) == IF user_id = 1 /\ d.user.exists THEN d.user ELSE NoUser
\* db_service.get_experience followed by the test of the callers:
\* `p and getattr(p, "type", "personality") == "personality"`
IsPersonality(d, id) ==
    /\ id \in 1..MaxRows
    /\ d.personalities[id].exists
    /\ d.personalities[id].type = "personality"

\* get_experiences(include_hidden=False, experience_type="personality"):
\* ORDER BY created_at DESC, rowid DESC; `first[0].id if first else None`
Listed(d) ==
    {i \in 1..MaxRows : /\ d.personalities[i].exists
                        /\ d.personalities[i].is_visible
                        /\ d.personalities[i].type = "personality"}
Before(d, i, j) ==
    \/ d.personalities[i].created_at > d.personalities[j].created_at
    \/ /\ d.personalities[i].created_at = d.personalities[j].created_at
       /\ i >= j
FirstListed(d) ==
    IF Listed(d) = {} THEN NULL
    ELSE CHOOSE i \in Listed(d) : \A j \in Listed(d) : Before(d, i, j)

\* the loop over prefs["profiles"]: the first profile with the default id that
\* has a personality_id decides, the loop ends there
ProfilePersonality(u) ==
    LET hits == {i \in 1..Len(u.profiles) :
                    /\ u.profiles[i].id = u.default_profile_id
                    /\ Truthy(u.profiles[i].personality_id)}
    IN  IF ~Truthy(u.default_profile_id) \/ hits = {} THEN NULL
        ELSE u.profiles[CHOOSE i \in hits : \A j \in hits : i <= j].personality_id

\* the precedence with the default preference before the default profile
resolve_default_first(d, user_id) ==
    LET u == get_user(d, user_id)
    IN  IF ~Truthy(user_id) \/ ~u.exists THEN FirstListed(d)
        ELSE IF Truthy(u.current_personality_id)
                  /\ IsPersonality(d, u.current_personality_id)
             THEN u.current_personality_id
        ELSE IF Truthy(u.default_personality_id)
                  /\ IsPersonality(d, u.default_personality_id)
             THEN u.default_personality_id
        ELSE IF IsPersonality(d, ProfilePersonality(u))
             THEN ProfilePersonality(u)
        ELSE FirstListed(d)

_resolve_personality_id_for_user(d, user_id) ==
    LET u == get_user(d, user_id)
    IN  IF ~Truthy(user_id) \/ ~u.exists THEN FirstListed(d)
        ELSE IF Truthy(u.current_personality_id)
                  /\ IsPersonality(d, u.current_personality_id)
             THEN u.current_personality_id
        ELSE IF IsPersonality(d, ProfilePersonality(u))
             THEN ProfilePersonality(u)
        ELSE IF Truthy(u.default_personality_id)
                  /\ IsPersonality(d, u.default_personality_id)
             THEN u.default_personality_id
        ELSE FirstListed(d)

\* SessionsMixin.start_session: INSERT OR IGNORE of a row without an end
start_session(tbl, id, now) ==
    IF tbl[id].exists
    THEN tbl
    ELSE [tbl EXCEPT ![id] = [exists |-> TRUE, started_at |-> now,
                              ended_at |-> NULL, duration_sec |-> NULL]]

\* end_session without its test of ended_at: every call writes the end again
end_session_overwrite(tbl, id, now) ==
    LET row == tbl[id]
    IN  IF row.exists /\ Truthy(row.started_at)
        THEN [tbl EXCEPT ![id] = [row EXCEPT !.ended_at = now,
                                             !.duration_sec = now - row.started_at]]
        ELSE tbl

\* SessionsMixin.end_session: the row is updated only if it exists, has a start
\* and has no end yet
end_session(tbl, id, now) ==
    LET row == tbl[id]
    IN  IF row.exists /\ Truthy(row.started_at) /\ ~Truthy(row.ended_at)
        THEN [tbl EXCEPT ![id] = [row EXCEPT !.ended_at = now,
                                             !.duration_sec = now - row.started_at]]
        ELSE tbl

\* websocket_unified up to the await in `await websocket.accept()` (esp32) or
\* in `await manager.connect(websocket)` (desktop): the connection is accepted.
Accept(s) ==
    /\ hpc[s] = "init"
    /\ conn[s] = "none"
    /\ conn' = [conn EXCEPT ![s] = "open"]
    /\ hpc' = [hpc EXCEPT ![s] = "accepted"]
    /\ UNCHANGED <<client_type, inbox, exitCause, audio_buffer, audio_data,
                   full_audio, cancel_event, ws_open, current_tts_task>>
    /\ UNCHANGED <<tVars, iVars, eVars, bVars>>
    /\ UNCHANGED <<gVars, since, qVars>>

\* From the return of the accept to the handshake message, with no await in
\* between: the connection is put in the device slot (esp32, overwriting it) or
\* in the manager's set (desktop), then the pipeline is checked.  Without a pipeline the
\* socket is closed and the handler returns.  The lookups of the active user and
\* of the personality are not guarded: a storage failure there leaves the
\* handler by an exception.  start_session is guarded.  On esp32 a failed send
\* of the auth message makes the handler return; on the desktop a failed send
\* of session_started is ignored.  None of these ways out passes the `finally`.
\* On esp32 the device status is set to connected with the session's id (a
\* failure of that write is ignored).
SessionStart(s, okLookup, okStart) ==
    /\ hpc[s] = "accepted"
    /\ \E okDevice \in BOOLEAN :
       LET gone == pipeline = "none"
           crash == ~gone /\ ~okLookup
           opened == ~gone /\ ~crash /\ okStart
           noauth == ~gone /\ ~crash /\ IsEsp32(s) /\ ~SendOK(s)
           device == ~gone /\ ~crash /\ IsEsp32(s)
           used == (IF crash \/ (~gone /\ ~okStart) THEN 1 ELSE 0)
                     + (IF okDevice THEN 0 ELSE 1)
       IN  /\ gone => (okLookup /\ okStart)
           /\ crash => okStart
           /\ ~device => okDevice
           /\ faults + used <= MaxFaults
           /\ faults' = faults + used
           /\ personality_id' = [personality_id EXCEPT ![s] =
                                   IF gone \/ crash THEN @
                                   ELSE _resolve_personality_id_for_user(
                                            db, get_active_user_id(db))]
           /\ sessions' = IF opened THEN start_session(sessions, s, clock)
                          ELSE sessions
           /\ ESP32_WS' = IF IsEsp32(s) THEN s ELSE ESP32_WS
           /\ active_connections' = IF IsEsp32(s) THEN active_connections
                                    ELSE ManagerConnect(active_connections, s)
           /\ ready_at_accept' = [ready_at_accept EXCEPT ![s] = pipeline]
           /\ esp32_device' = IF device /\ okDevice
                              THEN [ws_status |-> "connected", session_id |-> s]
                              ELSE esp32_device
           /\ hpc' = [hpc EXCEPT ![s] =
                        IF gone \/ noauth THEN "returned"
                        ELSE IF crash THEN "crashed" ELSE "greet"]
           /\ exitCause' = [exitCause EXCEPT ![s] =
                              IF gone THEN "no_pipeline"
                              ELSE IF crash THEN "storage_error"
                              ELSE IF noauth THEN "handshake" ELSE @]
           /\ conn' = [conn EXCEPT ![s] = IF gone \/ crash THEN "closed" ELSE @]
           /\ sent' = [sent EXCEPT ![s] =
                         IF gone \/ crash \/ noauth THEN @
                         ELSE Send(s, @, Msg("handshake", 0, 0, FALSE))]
    /\ UNCHANGED <<client_type, inbox, audio_buffer, audio_data, full_audio,
                   cancel_event, ws_open, current_tts_task>>
    /\ UNCHANGED <<tpc, turn, overlap, convos, llm_messages, log, buffered, started,
                   cancelAt, intrAt>>
    /\ UNCHANGED <<iVars, eVars, nmsg>>
    /\ UNCHANGED <<pipeline, clock, end_calls, since, db, pVars, generated, framer,
                   at_end>>

\* start of a generate_response call at handler position `run`, else wait at `wait`
GreetGenStart(s) ==
    /\ hpc[s] \in {"greet", "g_gen_lock"}
    /\ IF LockFree
       THEN /\ mlx_lock' = s
            /\ thread' = [thread EXCEPT ![s] = "llm"]
            /\ hpc' = [hpc EXCEPT ![s] = "g_gen_run"]
       ELSE /\ hpc[s] = "greet"
            /\ hpc' = [hpc EXCEPT ![s] = "g_gen_lock"]
            /\ UNCHANGED <<mlx_lock, thread>>
    /\ convos' = [convos EXCEPT ![s] = IF hpc[s] = "greet" THEN log[s] ELSE @]
    /\ UNCHANGED <<client_type, conn, inbox, exitCause, audio_buffer, audio_data,
                   full_audio, cancel_event, ws_open, current_tts_task>>
    /\ UNCHANGED <<tpc, turn, overlap, llm_messages, log, sent, buffered, started,
                   cancelAt, intrAt>>
    /\ UNCHANGED <<orphans, other, tq, tgen, agen, syn_cancel, observed>>
    /\ UNCHANGED <<eVars, bVars>>
    /\ UNCHANGED <<gVars, since, qVars>>

\* generate_response returns (or raises) in the greeting: on an exception the
\* greeting is given up; else the notification is sent (a failed send is
\* ignored) and synthesize_speech is called.
GreetGenDone(s, raises) ==
    /\ hpc[s] = "g_gen_run"
    /\ thread[s] = "llm"
    /\ raises => faults < MaxFaults
    /\ faults' = IF raises THEN faults + 1 ELSE faults
    /\ mlx_lock' = "free"
    /\ thread' = [thread EXCEPT ![s] = "none"]
    /\ IF raises
       THEN /\ hpc' = [hpc EXCEPT ![s] = "recv"]
            /\ UNCHANGED sent
       ELSE /\ sent' = [sent EXCEPT ![s] = Send(s, @,
                          Msg(IF IsEsp32(s) THEN "RESPONSE.CREATED" ELSE "response",
                              0, 0, FALSE))]
            /\ hpc' = [hpc EXCEPT ![s] = "g_syn_lock"]
    /\ UNCHANGED agen
    /\ tq' = [tq EXCEPT ![s] = <<>>]
    /\ tgen' = [tgen EXCEPT ![s] = 0]
    /\ syn_cancel' = [syn_cancel EXCEPT ![s] = FALSE]
    /\ observed' = [observed EXCEPT ![s] = FALSE]
    /\ UNCHANGED <<client_type, conn, inbox, exitCause, audio_buffer, audio_data,
                   full_audio, cancel_event, ws_open, current_tts_task>>
    /\ UNCHANGED <<tpc, turn, overlap, convos, llm_messages, log, buffered, started,
                   cancelAt, intrAt>>
    /\ UNCHANGED <<orphans, other, eVars, nmsg>>
    /\ UNCHANGED <<gVars, since, qVars>>

\* the greeting's synthesize_speech call (no cancel_event is passed): the lock
\* is taken once it is free and the synthesis thread is started
GreetSynAcquire(s) ==
    /\ hpc[s] = "g_syn_lock"
    /\ LockFree
    /\ mlx_lock' = s
    /\ thread' = [thread EXCEPT ![s] = "tts"]
    /\ agen' = [agen EXCEPT ![s] = "active"]
    /\ hpc' = [hpc EXCEPT ![s] = "g_syn_run"]
    /\ UNCHANGED <<client_type, conn, inbox, exitCause, audio_buffer, audio_data,
                   full_audio, cancel_event, ws_open, current_tts_task>>
    /\ UNCHANGED <<orphans, other, tq, tgen, syn_cancel, observed>>
    /\ UNCHANGED <<tVars, eVars, bVars>>
    /\ UNCHANGED <<gVars, since, qVars>>

\* the two log writes that end a greeting: the "[connected]" placeholder, then
\* the greeting itself; each write is caught separately
GreetLog(s, okUser, okAi) ==
    (IF okUser THEN <<Entry("user", 0)>> ELSE <<>>)
        \o (IF okAi THEN <<Entry("ai", 0)>> ELSE <<>>)

\* One iteration of the greeting's `async for` over synthesize_speech.  The end
\* marker ends the stream: the end-of-turn message is sent, the greeting is
\* logged and the handler goes on to its receive loop.  A failed send ends the
\* desktop loop (the generator is left to its finalizer); the esp32 loop goes on.
GreetConsume(s, okUser, okAi) ==
    /\ hpc[s] = "g_syn_run"
    /\ tq[s] # <<>>
    /\ (IF okUser THEN 0 ELSE 1) + (IF okAi THEN 0 ELSE 1) <= MaxFaults - faults
    /\ LET item == Head(tq[s])
           ends == item = END \/ (~IsEsp32(s) /\ ~SendOK(s))
           endType == IF IsEsp32(s) THEN "RESPONSE.COMPLETE" ELSE "audio_end"
       IN  IF ends
           THEN /\ sent' = [sent EXCEPT ![s] = Send(s, @, Msg(endType, 0, 0, FALSE))]
                /\ log' = [log EXCEPT ![s] = @ \o GreetLog(s, okUser, okAi)]
                /\ faults' = faults + (IF okUser THEN 0 ELSE 1) + (IF okAi THEN 0 ELSE 1)
                /\ hpc' = [hpc EXCEPT ![s] = "recv"]
                /\ tq' = [tq EXCEPT ![s] = <<>>]
                /\ IF item = END
                   THEN /\ mlx_lock' = "free"
                        /\ agen' = [agen EXCEPT ![s] = "none"]
                   ELSE /\ agen' = [agen EXCEPT ![s] = "closing"]
                        /\ UNCHANGED mlx_lock
           ELSE /\ okUser /\ okAi
                /\ sent' = [sent EXCEPT ![s] = Send(s, @, Msg("audio", 0, 1, FALSE))]
                /\ tq' = [tq EXCEPT ![s] = Tail(@)]
                /\ UNCHANGED <<log, faults, hpc, mlx_lock, agen>>
    /\ UNCHANGED <<client_type, conn, inbox, exitCause, audio_buffer, audio_data,
                   full_audio, cancel_event, ws_open, current_tts_task>>
    /\ UNCHANGED <<tpc, turn, overlap, convos, llm_messages, buffered, started,
                   cancelAt, intrAt>>
    /\ UNCHANGED <<thread, orphans, other, tgen, syn_cancel, observed>>
    /\ UNCHANGED <<eVars, nmsg>>
    /\ UNCHANGED <<gVars, since, qVars>>

\* ------------------------------------------------------- desktop handler
\* the mutation: a task that is never found unsettled, and so never cancelled
TaskLeftAlone(s) == FALSE

\* `current_tts_task and not current_tts_task.done()`
TaskUnsettled(s) == current_tts_task[s] = "task" /\ tpc[s] # "idle"

\* a handler that goes on without waiting for the task
TaskNotAwaited(s) == TRUE

\* `await current_tts_task` returns once the task has settled
TaskAwaited(s) == tpc[s] = "idle"

\* the phase of the turn at which the client's cancellation reaches the handler
Phase(s) ==
    IF tpc[s] \in {"start", "acked", "gen_lock", "gen_run", "notified", "syn_lock"}
    THEN "pre"
    ELSE IF tpc[s] \in {"syn_run", "syn_drain"} THEN "mid" ELSE "none"

\* an audio branch that leaves the buffer as it is
LeaveBuffer(buf, data) == buf

\* audio_buffer.extend(audio_data), first statement of the audio branch
ExtendBuffer(buf, data) == Append(buf, data)

\* start of a transcribe call on `audio`: the lock is taken if free, else awaited
SttStart(s, audio) ==
    /\ full_audio' = [full_audio EXCEPT ![s] = audio]
    /\ IF LockFree
       THEN /\ mlx_lock' = s
            /\ thread' = [thread EXCEPT ![s] = "stt"]
            /\ hpc' = [hpc EXCEPT ![s] = "stt_run"]
       ELSE /\ hpc' = [hpc EXCEPT ![s] = "stt_lock"]
            /\ UNCHANGED <<mlx_lock, thread>>

\* One JSON message of the desktop protocol: config, audio (with barge-in),
\* end_of_speech (transcribe the buffer), cancel.
RecvDesktop(s) ==
    /\ ~IsEsp32(s)
    /\ hpc[s] = "recv"
    /\ inbox[s] # <<>>
    /\ LET m == Head(inbox[s])
       IN  /\ inbox' = [inbox EXCEPT ![s] = Tail(@)]
           /\ CASE m.kind = "audio" ->
                    /\ audio_data' = [audio_data EXCEPT ![s] = m.id]
                    /\ audio_buffer' = [audio_buffer EXCEPT ![s] = ExtendBuffer(@, m.id)]
                    /\ IF TaskUnsettled(s)
                       THEN /\ cancel_event' = [cancel_event EXCEPT ![s] = TRUE]
                            /\ hpc' = [hpc EXCEPT ![s] = "barge"]
                            /\ cancelAt' = [cancelAt EXCEPT ![s] =
                                              IF @ = "none" THEN Phase(s) ELSE @]
                       ELSE UNCHANGED <<cancel_event, hpc, cancelAt>>
                    /\ since' = [since EXCEPT ![s] = Append(@, m.id)]
                    /\ UNCHANGED <<full_audio, mlx_lock, thread>>
                [] m.kind = "end_of_speech" ->
                    /\ IF audio_buffer[s] # <<>>
                       THEN /\ SttStart(s, audio_buffer[s])
                            /\ UNCHANGED since
                       ELSE /\ since' = [since EXCEPT ![s] = <<>>]
                            /\ UNCHANGED <<full_audio, mlx_lock, thread, hpc>>
                    /\ UNCHANGED <<audio_data, audio_buffer, cancel_event, cancelAt>>
                [] m.kind = "cancel" ->
                    /\ IF TaskUnsettled(s)
                       THEN /\ cancel_event' = [cancel_event EXCEPT ![s] = TRUE]
                            /\ cancelAt' = [cancelAt EXCEPT ![s] =
                                              IF @ = "none" THEN Phase(s) ELSE @]
                       ELSE UNCHANGED <<cancel_event, cancelAt>>
                    /\ audio_buffer' = [audio_buffer EXCEPT ![s] = <<>>]
                    /\ since' = [since EXCEPT ![s] = <<>>]
                    /\ UNCHANGED <<audio_data, full_audio, mlx_lock, thread, hpc>>
                [] OTHER ->
                    UNCHANGED <<audio_data, audio_buffer, cancel_event, cancelAt,
                                full_audio, mlx_lock, thread, hpc, since>>
    /\ UNCHANGED <<client_type, conn, exitCause, ws_open, current_tts_task>>
    /\ UNCHANGED <<tpc, turn, overlap, convos, llm_messages, log, sent, buffered,
                   started, intrAt>>
    /\ UNCHANGED <<orphans, other, tq, tgen, agen, syn_cancel, observed>>
    /\ UNCHANGED <<eVars, bVars>>
    /\ UNCHANGED <<gVars, qVars>>

\* barge-in, after `await current_tts_task`: clear the token, forget the task
BargeDone(s) ==
    /\ hpc[s] = "barge"
    /\ TaskAwaited(s)
    /\ cancel_event' = [cancel_event EXCEPT ![s] = FALSE]
    /\ current_tts_task' = [current_tts_task EXCEPT ![s] = "none"]
    /\ hpc' = [hpc EXCEPT ![s] = "recv"]
    /\ UNCHANGED <<client_type, conn, inbox, exitCause, audio_buffer, audio_data,
                   full_audio, ws_open>>
    /\ UNCHANGED <<tVars, iVars, eVars, bVars>>
    /\ UNCHANGED <<gVars, since, qVars>>

\* a transcribe call that had to wait for the lock
SttAcquire(s) ==
    /\ hpc[s] = "stt_lock"
    /\ LockFree
    /\ mlx_lock' = s
    /\ thread' = [thread EXCEPT ![s] = "stt"]
    /\ hpc' = [hpc EXCEPT ![s] = "stt_run"]
    /\ UNCHANGED <<client_type, conn, inbox, exitCause, audio_buffer, audio_data,
                   full_audio, cancel_event, ws_open, current_tts_task>>
    /\ UNCHANGED <<orphans, other, tq, tgen, agen, syn_cancel, observed>>
    /\ UNCHANGED <<tVars, eVars, bVars>>
    /\ UNCHANGED <<gVars, since, qVars>>

\* where the esp32 handler goes on after an inline turn or an empty transcription
Resume(s) == IF frames_left[s] = <<>> THEN "recv" ELSE "frames"

\* transcribe returns text, returns the empty string, or raises.
\* Desktop: the buffer is cleared and, for a non-empty text, the response task is
\* created; an exception is caught by the message handler's try.
\* Esp32: the turn is awaited inline; an exception is caught only on the manual
\* end_of_speech path, on the VAD path it leaves the receive loop.
SttDone(s, r) ==
    /\ hpc[s] = "stt_run"
    /\ thread[s] = "stt"
    /\ r \in {"text", "empty", "raise"}
    /\ r = "raise" => faults < MaxFaults
    /\ faults' = IF r = "raise" THEN faults + 1 ELSE faults
    /\ mlx_lock' = "free"
    /\ thread' = [thread EXCEPT ![s] = "none"]
    /\ IF IsEsp32(s)
       THEN /\ hpc' = [hpc EXCEPT ![s] =
                         CASE r = "text" -> "turn"
                           [] r = "empty" -> Resume(s)
                           [] OTHER -> IF via[s] = "vad" THEN "exit" ELSE "recv"]
            /\ exitCause' = [exitCause EXCEPT ![s] =
                               IF r = "raise" /\ via[s] = "vad"
                                  THEN "inference_error" ELSE @]
            /\ UNCHANGED <<audio_buffer, current_tts_task, overlap, since>>
       ELSE /\ hpc' = [hpc EXCEPT ![s] = "recv"]
            /\ audio_buffer' = [audio_buffer EXCEPT ![s] =
                                  IF r = "raise" THEN @ ELSE <<>>]
            /\ since' = [since EXCEPT ![s] = <<>>]
            /\ current_tts_task' = [current_tts_task EXCEPT ![s] =
                                      IF r = "text" THEN "task" ELSE @]
            /\ overlap' = [overlap EXCEPT ![s] = @ \/ (r = "text" /\ tpc[s] # "idle")]
            /\ UNCHANGED exitCause
    /\ IF r = "text"
       THEN /\ tpc' = [tpc EXCEPT ![s] = "start"]
            /\ turn' = [turn EXCEPT ![s] = @ + 1]
            /\ cancelAt' = [cancelAt EXCEPT ![s] = "none"]
            /\ intrAt' = [intrAt EXCEPT ![s] = -1]
       ELSE UNCHANGED <<tpc, turn, cancelAt, intrAt>>
    /\ UNCHANGED <<client_type, conn, inbox, audio_data, full_audio, cancel_event,
                   ws_open>>
    /\ UNCHANGED <<convos, llm_messages, log, sent, buffered, started>>
    /\ UNCHANGED <<orphans, other, tq, tgen, agen, syn_cancel, observed>>
    /\ UNCHANGED <<eVars, nmsg>>
    /\ UNCHANGED <<gVars, qVars>>

\* ------------------------------------- process_transcription_and_respond
\* the handler's position when the turn coroutine returns
AfterTurn(s) == IF IsEsp32(s) THEN Resume(s) ELSE hpc[s]

\* build_llm_messages: the last max_history_messages entries of the history,
\* then the new user utterance of turn k
BuildLlmMessages(history, k) ==
    LET n == Len(history)
        trimmed == IF n > MAX_HISTORY_MESSAGES
                   THEN SubSeq(history, n - MAX_HISTORY_MESSAGES + 1, n)
                   ELSE history
    IN  Append(trimmed, Entry("user", k))

\* The acknowledgment of the transcription; the turn returns if the send fails.
TurnAck(s) ==
    /\ tpc[s] = "start"
    /\ IF SendOK(s)
       THEN /\ sent' = [sent EXCEPT ![s] = Append(@,
                          Msg(IF IsEsp32(s) THEN "AUDIO.COMMITTED" ELSE "transcription",
                              turn[s], 0, FALSE))]
            /\ tpc' = [tpc EXCEPT ![s] = "acked"]
            /\ UNCHANGED hpc
       ELSE /\ tpc' = [tpc EXCEPT ![s] = "idle"]
            /\ hpc' = [hpc EXCEPT ![s] = AfterTurn(s)]
            /\ UNCHANGED sent
    /\ UNCHANGED <<client_type, conn, inbox, exitCause, audio_buffer, audio_data,
                   full_audio, cancel_event, ws_open, current_tts_task>>
    /\ UNCHANGED <<turn, overlap, convos, llm_messages, log, buffered, started,
                   cancelAt, intrAt>>
    /\ UNCHANGED <<iVars, eVars, bVars>>
    /\ UNCHANGED <<gVars, since, qVars>>

\* the other order: the user entry is written, then the history is read
LogUserThenRead(s, okUser) ==
    LET l == IF okUser THEN Append(log[s], Entry("user", turn[s])) ELSE log[s]
    IN  [convos |-> l, log |-> l]

\* _build_llm_context reads the history, then the user entry is written
\* (the write is caught if it fails): the history read and the log after it
ReadThenLogUser(s, okUser) ==
    [convos |-> log[s],
     log |-> IF okUser THEN Append(log[s], Entry("user", turn[s])) ELSE log[s]]

\* After the acknowledgment: clear the token, build the context, log the user
\* entry and call generate_response.
TurnContext(s, okUser) ==
    /\ tpc[s] = "acked"
    /\ ~okUser => faults < MaxFaults
    /\ faults' = IF okUser THEN faults ELSE faults + 1
    /\ cancel_event' = [cancel_event EXCEPT ![s] = FALSE]
    /\ LET r == ReadThenLogUser(s, okUser)
       IN  /\ convos' = [convos EXCEPT ![s] = r.convos]
           /\ llm_messages' = [llm_messages EXCEPT ![s] =
                                 BuildLlmMessages(r.convos, turn[s])]
           /\ log' = [log EXCEPT ![s] = r.log]
    /\ IF LockFree
       THEN /\ mlx_lock' = s
            /\ thread' = [thread EXCEPT ![s] = "llm"]
            /\ tpc' = [tpc EXCEPT ![s] = "gen_run"]
       ELSE /\ tpc' = [tpc EXCEPT ![s] = "gen_lock"]
            /\ UNCHANGED <<mlx_lock, thread>>
    /\ UNCHANGED <<client_type, conn, inbox, hpc, exitCause, audio_buffer, audio_data,
                   full_audio, ws_open, current_tts_task>>
    /\ UNCHANGED <<turn, overlap, sent, buffered, started, cancelAt, intrAt>>
    /\ UNCHANGED <<orphans, other, tq, tgen, agen, syn_cancel, observed>>
    /\ UNCHANGED <<eVars, nmsg>>
    /\ UNCHANGED <<gVars, since, qVars>>

\* a generate_response call that had to wait for the lock
TurnGenAcquire(s) ==
    /\ tpc[s] = "gen_lock"
    /\ LockFree
    /\ mlx_lock' = s
    /\ thread' = [thread EXCEPT ![s] = "llm"]
    /\ tpc' = [tpc EXCEPT ![s] = "gen_run"]
    /\ UNCHANGED <<orphans, other, tq, tgen, agen, syn_cancel, observed>>
    /\ UNCHANGED <<hVars, eVars, bVars>>
    /\ UNCHANGED <<turn, overlap, convos, llm_messages, log, sent, buffered, started,
                   cancelAt, intrAt>>
    /\ UNCHANGED <<gVars, since, qVars>>

\* the mutation: the guard lets an empty text pass
GuardWithoutText(s, r) == ~cancel_event[s] /\ ws_open[s] /\ r # "raise"

\* the guard after generation and sanitization: the turn goes on only if the
\* token is not set, the socket is open and the text is not empty
GuardPasses(s, r) == ~cancel_event[s] /\ ws_open[s] /\ r = "text"

\* generate_response returns a text, returns a text that is empty once
\* sanitized, or raises; then the guard, then the response notification.
TurnGenDone(s, r) ==
    /\ tpc[s] = "gen_run"
    /\ thread[s] = "llm"
    /\ r \in {"text", "empty", "raise"}
    /\ r = "raise" => faults < MaxFaults
    /\ faults' = IF r = "raise" THEN faults + 1 ELSE faults
    /\ mlx_lock' = "free"
    /\ thread' = [thread EXCEPT ![s] = "none"]
    /\ IF GuardPasses(s, r) /\ SendOK(s)
       THEN /\ sent' = [sent EXCEPT ![s] = Append(@,
                          Msg(IF IsEsp32(s) THEN "RESPONSE.CREATED" ELSE "response",
                              turn[s], 0, FALSE))]
            /\ tpc' = [tpc EXCEPT ![s] = "notified"]
            /\ UNCHANGED hpc
       ELSE /\ tpc' = [tpc EXCEPT ![s] = "idle"]
            /\ hpc' = [hpc EXCEPT ![s] = AfterTurn(s)]
            /\ UNCHANGED sent
    /\ UNCHANGED <<client_type, conn, inbox, exitCause, audio_buffer, audio_data,
                   full_audio, cancel_event, ws_open, current_tts_task>>
    /\ UNCHANGED <<turn, overlap, convos, llm_messages, log, buffered, started,
                   cancelAt, intrAt>>
    /\ UNCHANGED <<orphans, other, tq, tgen, agen, syn_cancel, observed>>
    /\ UNCHANGED <<eVars, nmsg>>
    /\ generated' = [generated EXCEPT ![s] =
                        [r |-> r, cancel |-> cancel_event[s], open |-> ws_open[s]]]
    /\ UNCHANGED <<gVars, since, pVars, framer, esp32_device, at_end>>

\* where an exception that leaves the turn takes the handler: the desktop task
\* catches it (_run_response), the manual end_of_speech branch catches it, on
\* the VAD path it leaves the receive loop
AfterException(s) ==
    IF IsEsp32(s) THEN (IF via[s] = "vad" THEN "exit" ELSE "recv") ELSE hpc[s]

\* After the notification: log the assistant entry (the write is caught if it
\* fails), look up the user and the voice (not guarded: a storage failure leaves
\* the turn by an exception) and call synthesize_speech with the cancel_event.
TurnSynth(s, okAi, okVoice) ==
    /\ tpc[s] = "notified"
    /\ (IF okAi THEN 0 ELSE 1) + (IF okVoice THEN 0 ELSE 1) <= MaxFaults - faults
    /\ faults' = faults + (IF okAi THEN 0 ELSE 1) + (IF okVoice THEN 0 ELSE 1)
    /\ log' = [log EXCEPT ![s] = IF okAi THEN Append(@, Entry("ai", turn[s])) ELSE @]
    /\ buffered' = [buffered EXCEPT ![s] = 0]
    /\ started' = [started EXCEPT ![s] = FALSE]
    /\ tq' = [tq EXCEPT ![s] = <<>>]
    /\ tgen' = [tgen EXCEPT ![s] = 0]
    /\ syn_cancel' = [syn_cancel EXCEPT ![s] = TRUE]
    /\ observed' = [observed EXCEPT ![s] = FALSE]
    /\ IF ~okVoice
       THEN /\ tpc' = [tpc EXCEPT ![s] = "idle"]
            /\ hpc' = [hpc EXCEPT ![s] = AfterException(s)]
            /\ exitCause' = [exitCause EXCEPT ![s] =
                               IF IsEsp32(s) /\ via[s] = "vad"
                                  THEN "storage_error" ELSE @]
            /\ UNCHANGED <<mlx_lock, thread, agen>>
       ELSE /\ UNCHANGED <<hpc, exitCause>>
            /\ IF LockFree
               THEN /\ mlx_lock' = s
                    /\ thread' = [thread EXCEPT ![s] = "tts"]
                    /\ agen' = [agen EXCEPT ![s] = "active"]
                    /\ tpc' = [tpc EXCEPT ![s] = "syn_run"]
               ELSE /\ tpc' = [tpc EXCEPT ![s] = "syn_lock"]
                    /\ UNCHANGED <<mlx_lock, thread, agen>>
    /\ UNCHANGED <<turn, overlap, convos, llm_messages, sent, cancelAt, intrAt>>
    /\ UNCHANGED <<client_type, conn, inbox, audio_buffer, audio_data, full_audio,
                   cancel_event, ws_open, current_tts_task>>
    /\ UNCHANGED <<eVars, orphans, other, nmsg>>
    /\ UNCHANGED <<gVars, since, qVars>>

\* a synthesize_speech call that had to wait for the lock
TurnSynAcquire(s) ==
    /\ tpc[s] = "syn_lock"
    /\ LockFree
    /\ mlx_lock' = s
    /\ thread' = [thread EXCEPT ![s] = "tts"]
    /\ agen' = [agen EXCEPT ![s] = "active"]
    /\ tpc' = [tpc EXCEPT ![s] = "syn_run"]
    /\ UNCHANGED <<orphans, other, tq, tgen, syn_cancel, observed>>
    /\ UNCHANGED <<hVars, eVars, bVars>>
    /\ UNCHANGED <<turn, overlap, convos, llm_messages, log, sent, buffered, started,
                   cancelAt, intrAt>>
    /\ UNCHANGED <<gVars, since, qVars>>

\* What follows the streaming loop: the desktop flushes what the prebuffer
\* still holds and sends audio_end; the esp32 side flushes the encoder (whole
\* frames were pushed, none is pending) and sends RESPONSE.COMPLETE.
Finish(s, out, buf, late) ==
    IF IsEsp32(s)
    THEN Send(s, out, Msg("RESPONSE.COMPLETE", turn[s], 0, late))
    ELSE Send(s,
              IF buf > 0
                 THEN Send(s, out, Msg("audio", turn[s], buf \div CHUNK_BYTES, late))
                 ELSE out,
              Msg("audio_end", turn[s], 0, late))

\* the turn returns normally
Returned(s, out, held) ==
    [tpc |-> "idle", hpc |-> AfterTurn(s), sent |-> out, buffered |-> buffered[s],
     started |-> started[s], cancel_event |-> cancel_event[s],
     mlx_lock |-> IF held THEN mlx_lock ELSE "free",
     agen |-> IF held THEN "closing" ELSE "none",
     tq |-> <<>>, observed |-> observed[s]]

\* the loop goes on to its next iteration
Continues(s, out, buf, st, ce) ==
    [tpc |-> "syn_run", hpc |-> hpc[s], sent |-> out, buffered |-> buf,
     started |-> st, cancel_event |-> ce, mlx_lock |-> mlx_lock, agen |-> agen[s],
     tq |-> Tail(tq[s]), observed |-> observed[s]]

\* the body of the desktop loop for one chunk: prebuffer until PREBUFFER_BYTES
\* are held, send them as one message, then send chunk by chunk; a failed send
\* leaves the loop
DesktopChunk(s) ==
    LET b2 == buffered[s] + CHUNK_BYTES
    IN  IF ~started[s]
        THEN IF b2 < PREBUFFER_BYTES
             THEN Continues(s, sent[s], b2, FALSE, cancel_event[s])
             ELSE IF SendOK(s)
                  THEN Continues(s, Append(sent[s],
                                   Msg("audio", turn[s], b2 \div CHUNK_BYTES, FALSE)),
                                 0, TRUE, cancel_event[s])
                  ELSE Returned(s, Finish(s, sent[s], b2, observed[s]), TRUE)
        ELSE IF SendOK(s)
             THEN Continues(s, Append(sent[s], Msg("audio", turn[s], 1, FALSE)),
                            buffered[s], TRUE, cancel_event[s])
             ELSE Returned(s, Finish(s, sent[s], buffered[s], observed[s]), TRUE)

\* the body of the esp32 loop for one chunk: one Opus frame is encoded and
\* sent; a failed send sets the cancel_event and the loop goes on
Esp32Chunk(s) ==
    IF SendOK(s)
    THEN Continues(s, Append(sent[s], Msg("audio", turn[s], 1, FALSE)),
                   buffered[s], started[s], cancel_event[s])
    ELSE Continues(s, sent[s], buffered[s], started[s], TRUE)

\* One iteration of `async for audio_chunk in pipeline.synthesize_speech(...)`:
\* the generator takes the next queue item, ends on the end marker, breaks if
\* the cancel_event is set; else the chunk is yielded to the loop body.
ConsumeOutcome(s) ==
    LET item == Head(tq[s])
    IN  IF item = END
        THEN Returned(s, Finish(s, sent[s], buffered[s], observed[s]), FALSE)
        ELSE IF cancel_event[s]
        THEN [Continues(s, sent[s], buffered[s], started[s], TRUE)
                EXCEPT !.tpc = "syn_drain", !.tq = <<>>, !.observed = TRUE]
        ELSE IF ~ws_open[s]
        THEN Returned(s, Finish(s, sent[s], buffered[s], TRUE), TRUE)
        ELSE IF IsEsp32(s) THEN Esp32Chunk(s) ELSE DesktopChunk(s)

TurnConsume(s) ==
    /\ tpc[s] = "syn_run"
    /\ tq[s] # <<>>
    /\ LET o == ConsumeOutcome(s)
       IN  /\ tpc' = [tpc EXCEPT ![s] = o.tpc]
           /\ hpc' = [hpc EXCEPT ![s] = o.hpc]
           /\ sent' = [sent EXCEPT ![s] = o.sent]
           /\ buffered' = [buffered EXCEPT ![s] = o.buffered]
           /\ started' = [started EXCEPT ![s] = o.started]
           /\ cancel_event' = [cancel_event EXCEPT ![s] = o.cancel_event]
           /\ mlx_lock' = o.mlx_lock
           /\ agen' = [agen EXCEPT ![s] = o.agen]
           /\ tq' = [tq EXCEPT ![s] = o.tq]
           /\ observed' = [observed EXCEPT ![s] = o.observed]
    /\ UNCHANGED <<client_type, conn, inbox, exitCause, audio_buffer, audio_data,
                   full_audio, ws_open, current_tts_task>>
    /\ UNCHANGED <<turn, overlap, convos, llm_messages, log, cancelAt, intrAt>>
    /\ UNCHANGED <<thread, orphans, other, tgen, syn_cancel>>
    /\ UNCHANGED <<eVars, bVars>>
    /\ UNCHANGED <<gVars, since, qVars>>

\* The generator's `finally: await tts_task` after it broke on the cancel_event:
\* when the thread has ended the lock is released and the turn goes on to the
\* flush; if the thread ended by an exception, the exception leaves the turn
\* (caught by _run_response on the desktop and by the manual end_of_speech
\* branch; on the VAD path it leaves the receive loop).
TurnDrain(s) ==
    /\ tpc[s] = "syn_drain"
    /\ ~Running(s)
    /\ mlx_lock' = "free"
    /\ agen' = [agen EXCEPT ![s] = "none"]
    /\ thread' = [thread EXCEPT ![s] = "none"]
    /\ tpc' = [tpc EXCEPT ![s] = "idle"]
    /\ IF thread[s] = "raised"
       THEN /\ hpc' = [hpc EXCEPT ![s] =
                         IF IsEsp32(s)
                            THEN (IF via[s] = "vad" THEN "exit" ELSE "recv")
                            ELSE @]
            /\ exitCause' = [exitCause EXCEPT ![s] =
                               IF IsEsp32(s) /\ via[s] = "vad"
                                  THEN "inference_error" ELSE @]
            /\ UNCHANGED sent
       ELSE /\ hpc' = [hpc EXCEPT ![s] = AfterTurn(s)]
            /\ sent' = [sent EXCEPT ![s] = Finish(s, @, buffered[s], observed[s])]
            /\ UNCHANGED exitCause
    /\ UNCHANGED <<client_type, conn, inbox, audio_buffer, audio_data, full_audio,
                   cancel_event, ws_open, current_tts_task>>
    /\ UNCHANGED <<turn, overlap, convos, llm_messages, log, buffered, started,
                   cancelAt, intrAt>>
    /\ UNCHANGED <<orphans, other, tq, tgen, syn_cancel, observed>>
    /\ UNCHANGED <<eVars, bVars>>
    /\ UNCHANGED <<gVars, since, qVars>>

\* --------------------------------------------------------- esp32 handler
\* The VAD loop over the buffered frames: a speech frame starts or continues an
\* utterance; a non-speech frame is accumulated only while speaking; more than
\* SILENCE_FRAMES consecutive non-speech frames finalize the utterance, and the
\* loop is suspended for the transcription and the turn.
\* one iteration of the loop on the frame f, the frames after it being rest
VadFrame(p, f, rest) ==
    IF f
    THEN [p EXCEPT !.speech_frames = Append(@, f), !.is_speaking = TRUE,
                   !.silence_count = 0, !.left = rest]
    ELSE IF p.is_speaking
         THEN IF p.silence_count + 1 > SILENCE_FRAMES
              THEN [speech_frames |-> <<>>, is_speaking |-> FALSE,
                    silence_count |-> 0, left |-> rest, fin |-> TRUE,
                    audio |-> Append(p.speech_frames, f)]
              ELSE [p EXCEPT !.speech_frames = Append(@, f),
                             !.silence_count = @ + 1, !.left = rest]
         ELSE [p EXCEPT !.left = rest]

VadRun(frames, sf, sp, sc) ==
    LET n == Len(frames)
        st[i \in 0..n] ==
            IF i = 0
            THEN [speech_frames |-> sf, is_speaking |-> sp, silence_count |-> sc,
                  left |-> frames, fin |-> FALSE, audio |-> <<>>]
            ELSE LET p == st[i - 1]
                 IN  IF p.fin THEN p
                     ELSE VadFrame(p, frames[i], SubSeq(frames, i + 1, n))
    IN  st[n]

Payload(kind) == IF kind = "speech" THEN SpeechMsg ELSE SilenceMsg

\* One message of the esp32 protocol: binary audio (handed to the VAD loop),
\* the instruction end_of_speech (manual finalize), the instruction INTERRUPT.
RecvEsp32(s) ==
    /\ IsEsp32(s)
    /\ hpc[s] = "recv"
    /\ inbox[s] # <<>>
    /\ LET m == Head(inbox[s])
       IN  /\ inbox' = [inbox EXCEPT ![s] = Tail(@)]
           /\ CASE m.kind \in {"speech", "silence"} ->
                    /\ frames_left' = [frames_left EXCEPT ![s] = Payload(m.kind)]
                    /\ hpc' = [hpc EXCEPT ![s] = "frames"]
                    /\ UNCHANGED <<speech_frames, is_speaking, silence_count, via,
                                   seg_last, full_audio, mlx_lock, thread,
                                   cancel_event>>
                [] m.kind = "end_of_speech" ->
                    /\ IF speech_frames[s] # <<>>
                       THEN /\ is_speaking' = [is_speaking EXCEPT ![s] = FALSE]
                            /\ speech_frames' = [speech_frames EXCEPT ![s] = <<>>]
                            /\ silence_count' = [silence_count EXCEPT ![s] = 0]
                            /\ via' = [via EXCEPT ![s] = "manual"]
                            /\ SttStart(s, speech_frames[s])
                       ELSE UNCHANGED <<speech_frames, is_speaking, silence_count,
                                        via, full_audio, mlx_lock, thread, hpc>>
                    /\ seg_last' = [seg_last EXCEPT ![s] =
                                      [input |-> "end_of_speech",
                                       emitted |-> speech_frames[s] # <<>>]]
                    /\ UNCHANGED <<frames_left, cancel_event>>
                [] OTHER ->
                    /\ cancel_event' = [cancel_event EXCEPT ![s] = TRUE]
                    /\ speech_frames' = [speech_frames EXCEPT ![s] = <<>>]
                    /\ seg_last' = [seg_last EXCEPT ![s] =
                                      [input |-> "INTERRUPT", emitted |-> FALSE]]
                    /\ UNCHANGED <<is_speaking, silence_count, via, frames_left,
                                   full_audio, mlx_lock, thread, hpc>>
    /\ UNCHANGED <<client_type, conn, exitCause, audio_buffer, audio_data, ws_open,
                   current_tts_task>>
    /\ UNCHANGED <<orphans, other, tq, tgen, agen, syn_cancel, observed>>
    /\ UNCHANGED <<tVars, bVars>>
    /\ UNCHANGED <<gVars, since, qVars>>

\* the `while len(audio_buffer) >= vad_frame_bytes` loop, from where it stands
\* to the next finalized utterance or to the end of the buffered frames
EspFrames(s) ==
    /\ hpc[s] = "frames"
    /\ LET r == VadRun(frames_left[s], speech_frames[s], is_speaking[s],
                       silence_count[s])
       IN  /\ speech_frames' = [speech_frames EXCEPT ![s] = r.speech_frames]
           /\ is_speaking' = [is_speaking EXCEPT ![s] = r.is_speaking]
           /\ silence_count' = [silence_count EXCEPT ![s] = r.silence_count]
           /\ frames_left' = [frames_left EXCEPT ![s] = r.left]
           /\ seg_last' = [seg_last EXCEPT ![s] = [input |-> "frames", emitted |-> r.fin]]
           /\ IF r.fin
              THEN /\ via' = [via EXCEPT ![s] = "vad"]
                   /\ SttStart(s, r.audio)
              ELSE /\ hpc' = [hpc EXCEPT ![s] = "recv"]
                   /\ UNCHANGED <<via, full_audio, mlx_lock, thread>>
    /\ UNCHANGED <<client_type, conn, inbox, exitCause, audio_buffer, audio_data,
                   cancel_event, ws_open, current_tts_task>>
    /\ UNCHANGED <<orphans, other, tq, tgen, agen, syn_cancel, observed>>
    /\ UNCHANGED <<tVars, bVars>>
    /\ UNCHANGED <<gVars, since, qVars>>

\* ------------------------------------------------------------- teardown
\* websocket.receive() raises or reports websocket.disconnect
RecvDisconnect(s) ==
    /\ hpc[s] = "recv"
    /\ inbox[s] = <<>>
    /\ conn[s] = "closed"
    /\ hpc' = [hpc EXCEPT ![s] = "exit"]
    /\ exitCause' = [exitCause EXCEPT ![s] = "disconnect"]
    /\ UNCHANGED <<client_type, conn, inbox, audio_buffer, audio_data, full_audio,
                   cancel_event, ws_open, current_tts_task>>
    /\ UNCHANGED <<tVars, iVars, eVars, bVars>>
    /\ UNCHANGED <<gVars, since, qVars>>

\* current_tts_task.cancel(): CancelledError is raised at the await the task is
\* suspended in.  Inside `async with mlx_lock: await to_thread(...)` the lock is
\* released although the worker thread cannot be stopped; a generator suspended
\* in the streaming loop keeps the lock until its thread has ended; a generator
\* already awaiting tts_task has that await cancelled and releases the lock.
CancelTask(s) ==
    LET p == tpc[s]
        orphaned == p = "gen_run" \/ (p = "syn_drain" /\ Running(s))
    IN  [mlx_lock |-> IF p \in {"gen_run", "syn_drain"} THEN "free" ELSE mlx_lock,
         thread |-> IF p \in {"gen_run", "syn_drain"} THEN "none" ELSE thread[s],
         orphans |-> IF orphaned THEN orphans + 1 ELSE orphans,
         agen |-> IF p = "syn_run" THEN "closing"
                  ELSE IF p = "syn_drain" THEN "none" ELSE agen[s]]

\* the `finally` of websocket_unified: the task is cancelled, the connection is
\* taken out of its registry (the device slot only if it still holds this
\* connection; the device status is set to disconnected whichever connection
\* holds the slot) and the session is ended; a failure of the status write or
\* of end_session is ignored
Teardown(s, okEnd) ==
    /\ hpc[s] = "exit"
    /\ \E okDevice \in BOOLEAN :
       LET used == (IF okEnd THEN 0 ELSE 1) + (IF okDevice THEN 0 ELSE 1) IN
        /\ ~IsEsp32(s) => okDevice
        /\ faults + used <= MaxFaults
        /\ faults' = faults + used
        /\ esp32_device' = IF IsEsp32(s) /\ okDevice
                           THEN [ws_status |-> "disconnected", session_id |-> "none"]
                           ELSE esp32_device
    /\ ESP32_WS' = IF IsEsp32(s) /\ ESP32_WS = s THEN "none" ELSE ESP32_WS
    /\ active_connections' = IF IsEsp32(s) THEN active_connections
                             ELSE ManagerDisconnect(active_connections, s)
    /\ sessions' = IF okEnd THEN end_session(sessions, s, clock) ELSE sessions
    /\ end_calls' = [end_calls EXCEPT ![s] = IF okEnd THEN Append(@, clock) ELSE @]
    /\ UNCHANGED <<pipeline, ready_at_accept, clock, nmsg, since, pVars, generated,
                   framer>>
    /\ at_end' = [at_end EXCEPT ![s] = [log |-> log[s], sent |-> sent[s],
                                        task |-> TaskUnsettled(s)]]
    /\ UNCHANGED <<db, personality_id>>
    /\ ws_open' = [ws_open EXCEPT ![s] = FALSE]
    /\ hpc' = [hpc EXCEPT ![s] = "closed"]
    /\ IF TaskUnsettled(s)
       THEN LET c == CancelTask(s)
            IN  /\ cancel_event' = [cancel_event EXCEPT ![s] = TRUE]
                /\ tpc' = [tpc EXCEPT ![s] = "idle"]
                /\ mlx_lock' = c.mlx_lock
                /\ thread' = [thread EXCEPT ![s] = c.thread]
                /\ orphans' = c.orphans
                /\ agen' = [agen EXCEPT ![s] = c.agen]
                /\ tq' = [tq EXCEPT ![s] = <<>>]
       ELSE UNCHANGED <<cancel_event, tpc, mlx_lock, thread, orphans, agen, tq>>
    /\ UNCHANGED <<client_type, conn, inbox, exitCause, audio_buffer, audio_data,
                   full_audio, current_tts_task>>
    /\ UNCHANGED <<turn, overlap, convos, llm_messages, log, sent, buffered, started,
                   cancelAt, intrAt>>
    /\ UNCHANGED <<other, tgen, syn_cancel, observed>>
    /\ UNCHANGED eVars

\* ----------------------------------------------------------- specification
\* the steps common to both transports
Common ==
    \/ \E s \in Sessions : \E m \in DesktopMsgs \cup Esp32Msgs : ClientSend(s, m)
    \/ \E s \in Sessions : ClientDrop(s)
    \/ OtherStart
    \/ OtherDone
    \/ \E s \in Sessions : \E raises \in BOOLEAN : TtsStep(s, raises)
    \/ \E s \in Sessions : Accept(s)
    \/ \E s \in Sessions : \E okLookup, okStart \in BOOLEAN :
          SessionStart(s, okLookup, okStart)
    \/ \E s \in Sessions : GreetGenStart(s)
    \/ \E s \in Sessions : \E raises \in BOOLEAN : GreetGenDone(s, raises)
    \/ \E s \in Sessions : GreetSynAcquire(s)
    \/ \E s \in Sessions : \E okUser, okAi \in BOOLEAN : GreetConsume(s, okUser, okAi)
    \/ \E s \in Sessions : SttAcquire(s)
    \/ \E s \in Sessions : \E r \in {"text", "empty", "raise"} : SttDone(s, r)
    \/ \E s \in Sessions : TurnAck(s)
    \/ \E s \in Sessions : \E okUser \in BOOLEAN : TurnContext(s, okUser)
    \/ \E s \in Sessions : TurnGenAcquire(s)
    \/ \E s \in Sessions : \E r \in {"text", "empty", "raise"} : TurnGenDone(s, r)
    \/ \E s \in Sessions : \E okAi, okVoice \in BOOLEAN : TurnSynth(s, okAi, okVoice)
    \/ \E s \in Sessions : TurnSynAcquire(s)
    \/ \E s \in Sessions : TurnConsume(s)
    \/ \E s \in Sessions : TurnDrain(s)
    \/ \E s \in Sessions : RecvDisconnect(s)
    \/ \E s \in Sessions : \E okEnd \in BOOLEAN : Teardown(s, okEnd)

NextDesktop ==
    \/ Common
    \/ \E s \in Sessions : RecvDesktop(s)
    \/ \E s \in Sessions : BargeDone(s)
    \/ \E s \in Sessions : AgenClose(s)
    \/ OrphanFinish

NextEsp32 ==
    \/ Common
    \/ \E s \in Sessions : RecvEsp32(s)
    \/ \E s \in Sessions : EspFrames(s)

\* one desktop connection and the other callers of the inference facade
SpecDesktop == InitFor({"d"}) /\ [][NextDesktop]_vars

\* one esp32 connection and the other callers of the inference facade
SpecEsp32 == InitFor({"e"}) /\ [][NextEsp32]_vars

\* the same, where the event loop and the worker threads go on running whatever
\* can run
FairEsp32 == SpecEsp32 /\ WF_vars(NextEsp32)


\* ------------------------------------------------------------ properties
Last(q) == q[Len(q)]
Role(e) == e[1]
TurnOf(e) == e[2]
\* the turn whose context llm_messages holds
ContextTurn(s) == TurnOf(Last(llm_messages[s]))
\* audio chunks of the current turn sent after the stream observed the flag
LateChunks(s) ==
    SumN(SelectSeq(sent[s],
                   LAMBDA m : m.type = "audio" /\ m.turn = turn[s] /\ m.late))

\* C1: at most one offloaded inference computation (a transcribe, generate or
\* synthesize worker thread, of any caller) is executing at any time.
C1_OneInferenceThread == NumRunning <= 1

\* C2: turns of a session are sequential: no response task is created while
\* another one is unsettled, and once a turn has built its context every log
\* entry of an earlier turn was already part of the history it read.
C2_TurnsSequential ==
    \A s \in Sessions :
        /\ ~overlap[s]
        /\ llm_messages[s] # <<>> =>
             \A i \in 1..Len(log[s]) :
                 TurnOf(log[s][i]) < ContextTurn(s) =>
                     (i <= Len(convos[s]) /\ convos[s][i] = log[s][i])

\* the second turn of a desktop session is generating, its context holding the
\* assistant entry of the first turn
C2_Witness ==
    /\ turn["d"] = 2
    /\ tpc["d"] = "gen_run"
    /\ ContextTurn("d") = 2
    /\ \E i \in 1..Len(convos["d"]) : convos["d"][i] = Entry("ai", 1)

\* C3: the history a turn reads holds only entries of earlier turns, and the
\* context is that history (trimmed) followed by the new utterance once.
C3_HistoryReadBeforeWrites ==
    \A s \in Sessions :
        llm_messages[s] # <<>> =>
            LET n == Len(llm_messages[s])
                k == ContextTurn(s)
            IN  /\ Last(llm_messages[s]) = Entry("user", k)
                /\ \A i \in 1..(n - 1) : TurnOf(llm_messages[s][i]) < k
                /\ \A i \in 1..Len(convos[s]) : TurnOf(convos[s][i]) < k
                /\ SubSeq(llm_messages[s], 1, n - 1) = convos[s]

\* the first turn has read the greeting's two entries and written its user entry
C3_Witness ==
    \E s \in Sessions :
        /\ turn[s] = 1
        /\ tpc[s] \in {"gen_lock", "gen_run"}
        /\ Len(llm_messages[s]) = 3
        /\ Last(log[s]) = Entry("user", 1)

\* C4: a cancellation signalled after the response task was created and before
\* its synthesis stream started leaves the turn without any audio chunk.
C4_NoAudioAfterEarlyCancel ==
    \A s \in Sessions : cancelAt[s] = "pre" => AudioChunks(s, turn[s]) = 0

\* C5: a cancellation signalled before the synthesis stream started leaves the
\* turn without its end-of-turn message (audio_end, RESPONSE.COMPLETE).
C5_NoEndAfterEarlyCancel ==
    \A s \in Sessions :
        cancelAt[s] = "pre" =>
            /\ SelectMsgs(s, "audio_end", turn[s]) = <<>>
            /\ SelectMsgs(s, "RESPONSE.COMPLETE", turn[s]) = <<>>

\* C6: after a cancellation signalled while the stream is in progress, at most
\* one chunk of audio is sent once the stream has observed the flag, the audio
\* held by the prebuffer included.
C6_OneChunkAfterObserved ==
    \A s \in Sessions : cancelAt[s] = "mid" => LateChunks(s) <= 1

\* C7 as stated: while the handler waits for the unsettled task, the new audio
\* is not yet in the input buffer.
C7_AppendAfterSettle ==
    \A s \in Sessions :
        hpc[s] = "barge" =>
            \A i \in 1..Len(audio_buffer[s]) : audio_buffer[s][i] # audio_data[s]

\* C7 amended: an audio message is appended to the input buffer as soon as it is
\* received; if the response task is unsettled the handler then sets the token
\* and waits, and it goes back to receiving only once the task has settled,
\* with the token cleared and the buffer as it was.
C7_AppendThenSettle ==
    [][\A s \in Sessions :
          /\ audio_data'[s] # audio_data[s] =>
                /\ audio_buffer'[s] # <<>>
                /\ Last(audio_buffer'[s]) = audio_data'[s]
          /\ (hpc[s] # "barge" /\ hpc'[s] = "barge") =>
                /\ cancel_event'[s]
                /\ audio_data'[s] # audio_data[s]
          /\ (hpc[s] = "barge" /\ hpc'[s] # "barge") =>
                /\ tpc[s] = "idle"
                /\ ~cancel_event'[s]
                /\ hpc'[s] = "recv"
                /\ audio_buffer'[s] = audio_buffer[s]
                /\ inbox'[s] = inbox[s]]_vars

\* the handler waits for an unsettled task, the new audio already buffered
C7_Witness ==
    \E s \in Sessions :
        /\ hpc[s] = "barge"
        /\ tpc[s] # "idle"
        /\ audio_buffer[s] = <<audio_data[s]>>

\* C8: an INTERRUPT sent by the device while at least two chunks of the response
\* are still to be sent keeps the response from being sent in full.
C8_InterruptStopsStream ==
    \A s \in Sessions :
        (intrAt[s] >= 0 /\ intrAt[s] + 1 < NChunks) =>
            AudioChunks(s, turn[s]) < NChunks

\* C9: in the log of a session no user entry is followed by two assistant
\* entries in a row.
C9_AtMostOneAssistant ==
    \A s \in Sessions :
        \A i \in 1..(Len(log[s]) - 2) :
            ~(/\ Role(log[s][i]) = "user"
              /\ Role(log[s][i + 1]) = "ai"
              /\ Role(log[s][i + 2]) = "ai")

\* C10: an exception raised by an inference call never makes the handler leave
\* its receive loop.
C10_SessionSurvivesInferenceError ==
    \A s \in Sessions : exitCause[s] # "inference_error"

\* ---------------------------------------------------------------------------
\* The sessions table on its own: start_session and end_session called in any
\* order, any number of times, at any time, on the ids of the table.
MaxClock == 3
MaxEndCalls == 2

\* time passes between two calls
Tick ==
    /\ clock < MaxClock
    /\ clock' = clock + 1
    /\ UNCHANGED <<hVars, tVars, iVars, eVars, bVars>>
    /\ UNCHANGED <<pipeline, ready_at_accept, ESP32_WS, active_connections, sessions,
                   end_calls, since, qVars>>
    /\ UNCHANGED <<db, personality_id>>

StartSession(id) ==
    /\ sessions' = start_session(sessions, id, clock)
    /\ UNCHANGED <<hVars, tVars, iVars, eVars, bVars>>
    /\ UNCHANGED <<pipeline, ready_at_accept, ESP32_WS, active_connections, clock,
                   end_calls, since, qVars>>
    /\ UNCHANGED <<db, personality_id>>

EndSession(id) ==
    /\ Len(end_calls[id]) < MaxEndCalls
    /\ sessions' = end_session(sessions, id, clock)
    /\ end_calls' = [end_calls EXCEPT ![id] = Append(@, clock)]
    /\ UNCHANGED <<hVars, tVars, iVars, eVars, bVars>>
    /\ UNCHANGED <<pipeline, ready_at_accept, ESP32_WS, active_connections, clock,
                   since, qVars>>
    /\ UNCHANGED <<db, personality_id>>

NextSessions ==
    \/ Tick
    \/ \E id \in Sessions : StartSession(id)
    \/ \E id \in Sessions : EndSession(id)

SpecSessions == InitState({}, "ready") /\ [][NextSessions]_vars

\* ---------------------------------------------------------------------------
\* Start-up.  lifespan builds the VoicePipeline facade and assigns it to the
\* global before it yields, so no connection is accepted while the global is
\* None; init_models runs as a background task after that.  "loading" and
\* "failed" stand for a facade whose models are not all loaded: init_models loads
\* the language model, then the transcriber, then the synthesizer, and may stop
\* with an exception at any of them.

\* init_pipeline_background: init_models returns, pipeline_ready is set
InitModelsDone ==
    /\ pipeline = "loading"
    /\ pipeline' = "ready"
    /\ UNCHANGED <<hVars, tVars, iVars, eVars, bVars>>
    /\ UNCHANGED <<ready_at_accept, ESP32_WS, active_connections, sessions, clock,
                   end_calls, since, qVars>>
    /\ UNCHANGED <<db, personality_id>>

\* init_pipeline_background: init_models raises, the exception is only logged
InitModelsFailed ==
    /\ pipeline = "loading"
    /\ pipeline' = "failed"
    /\ UNCHANGED <<hVars, tVars, iVars, eVars, bVars>>
    /\ UNCHANGED <<ready_at_accept, ESP32_WS, active_connections, sessions, clock,
                   end_calls, since, qVars>>
    /\ UNCHANGED <<db, personality_id>>

\* the greeting's generate_response while the language model is not loaded:
\* self.tokenizer does not exist, the AttributeError is caught by the greeting's
\* `except` and the handler goes on to its receive loop
GreetUnready(s) ==
    /\ hpc[s] = "greet"
    /\ pipeline \in {"loading", "failed"}
    /\ hpc' = [hpc EXCEPT ![s] = "recv"]
    /\ UNCHANGED <<client_type, conn, inbox, exitCause, audio_buffer, audio_data,
                   full_audio, cancel_event, ws_open, current_tts_task>>
    /\ UNCHANGED <<tVars, iVars, eVars, bVars>>
    /\ UNCHANGED <<gVars, since, qVars>>

\* connections made while the models load: up to the end of the greeting
NextStartup ==
    \/ InitModelsDone
    \/ InitModelsFailed
    \/ \E s \in Sessions : ClientDrop(s)
    \/ \E s \in Sessions : Accept(s)
    \/ \E s \in Sessions : \E okLookup, okStart \in BOOLEAN :
          SessionStart(s, okLookup, okStart)
    \/ \E s \in Sessions : GreetUnready(s)
    \/ \E s \in Sessions : GreetGenStart(s)
    \/ \E s \in Sessions : \E raises \in BOOLEAN : GreetGenDone(s, raises)
    \/ \E s \in Sessions : GreetSynAcquire(s)
    \/ \E s \in Sessions : \E raises \in BOOLEAN : TtsStep(s, raises)
    \/ \E s \in Sessions : \E okUser, okAi \in BOOLEAN : GreetConsume(s, okUser, okAi)

SpecStartup == InitState({"d", "e"}, "loading") /\ [][NextStartup]_vars

\* ---------------------------------------------------------------------------
\* The device slot.  Two connections that both come with client_type=esp32 (a
\* device that reconnects before its old connection is gone, or a second
\* device), and the REST endpoint that disconnects the device.

\* POST /device/disconnect: the connection in the slot is sent SESSION.END and
\* closed (failures of both are ignored), then the slot is cleared
DisconnectDevice ==
    /\ ESP32_WS # "none"
    /\ sent' = [sent EXCEPT ![ESP32_WS] = Send(ESP32_WS, @, Msg("SESSION.END", 0, 0, FALSE))]
    /\ conn' = [conn EXCEPT ![ESP32_WS] = "closed"]
    /\ ESP32_WS' = "none"
    /\ UNCHANGED <<client_type, inbox, hpc, exitCause, audio_buffer, audio_data,
                   full_audio, cancel_event, ws_open, current_tts_task>>
    /\ UNCHANGED <<tpc, turn, overlap, convos, llm_messages, log, buffered, started,
                   cancelAt, intrAt>>
    /\ UNCHANGED <<iVars, eVars, bVars>>
    /\ UNCHANGED <<pipeline, ready_at_accept, active_connections, sessions, clock,
                   end_calls, since, qVars>>
    /\ UNCHANGED <<db, personality_id>>

NextDevices ==
    \/ DisconnectDevice
    \/ \E s \in Sessions : ClientDrop(s)
    \/ \E s \in Sessions : Accept(s)
    \/ \E s \in Sessions : \E okLookup, okStart \in BOOLEAN :
          SessionStart(s, okLookup, okStart)
    \/ \E s \in Sessions : GreetGenStart(s)
    \/ \E s \in Sessions : \E raises \in BOOLEAN : GreetGenDone(s, raises)
    \/ \E s \in Sessions : GreetSynAcquire(s)
    \/ \E s \in Sessions : \E raises \in BOOLEAN : TtsStep(s, raises)
    \/ \E s \in Sessions : \E okUser, okAi \in BOOLEAN : GreetConsume(s, okUser, okAi)
    \/ \E s \in Sessions : RecvDisconnect(s)
    \/ \E s \in Sessions : \E okEnd \in BOOLEAN : Teardown(s, okEnd)

SpecDevices ==
    /\ InitWith({"d", "e"}, "ready", [s \in Sessions |-> CLIENT_TYPE_ESP32])
    /\ [][NextDevices]_vars

\* the handler of s is serving a connection that nobody has closed
Live(s) == hpc[s] \notin {"init", "closed", "returned", "crashed"} /\ conn[s] = "open"

\* ---------------------------------------------------------------------------
\* The esp32 segmenter on its own: classified frames one at a time, the
\* instruction end_of_speech and the instruction INTERRUPT, in any order.  A
\* finalized utterance is put in full_audio; the turn it starts is left out.
\* nmsg counts the instructions.
MaxSpeech == 1
MaxInstr == 2

\* the segmenter state of connection s, as VadFrame takes it
SegState(s) ==
    [speech_frames |-> speech_frames[s], is_speaking |-> is_speaking[s],
     silence_count |-> silence_count[s], left |-> <<>>, fin |-> FALSE,
     audio |-> <<>>]

\* `msg == "end_of_speech" and speech_frames`: the accumulated frames are the
\* utterance, the segmenter is reset; without frames nothing is done
EndOfSpeech(p) ==
    IF p.speech_frames # <<>>
    THEN [speech_frames |-> <<>>, is_speaking |-> FALSE, silence_count |-> 0,
          left |-> p.left, fin |-> TRUE, audio |-> p.speech_frames]
    ELSE p

\* `msg == "INTERRUPT"`: the accumulated frames are dropped (audio_buffer, the
\* bytes of an incomplete frame, is cleared too); is_speaking and silence_count
\* are not assigned
Interrupt(p) == [p EXCEPT !.speech_frames = <<>>]

HasSpeech(q) == \E i \in 1..Len(q) : q[i]
NumSpeech(q) == Cardinality({i \in 1..Len(q) : q[i]})
\* the length of the run of non-speech frames that ends q
SilentTail(q) ==
    IF \E i \in 1..Len(q) : q[i]
    THEN Len(q) - (CHOOSE i \in 1..Len(q) : q[i] /\ \A j \in (i + 1)..Len(q) : ~q[j])
    ELSE Len(q)

SegApply(s, r, input) ==
    /\ speech_frames' = [speech_frames EXCEPT ![s] = r.speech_frames]
    /\ is_speaking' = [is_speaking EXCEPT ![s] = r.is_speaking]
    /\ silence_count' = [silence_count EXCEPT ![s] = r.silence_count]
    /\ full_audio' = [full_audio EXCEPT ![s] = IF r.fin THEN r.audio ELSE @]
    /\ via' = [via EXCEPT ![s] = IF ~r.fin THEN @
                                 ELSE IF input = "end_of_speech" THEN "manual" ELSE "vad"]
    /\ seg_last' = [seg_last EXCEPT ![s] = [input |-> input, emitted |-> r.fin]]
    /\ UNCHANGED <<client_type, conn, inbox, hpc, exitCause, audio_buffer, audio_data,
                   ws_open, current_tts_task>>
    /\ UNCHANGED <<tVars, iVars, gVars, frames_left, faults, since, qVars>>

\* one frame of a binary message goes through the VAD loop
SegFrame(s, f) ==
    /\ IsEsp32(s)
    /\ f => NumSpeech(speech_frames[s]) < MaxSpeech
    /\ SegApply(s, VadFrame(SegState(s), f, <<>>), IF f THEN "speech" ELSE "nonspeech")
    /\ UNCHANGED <<cancel_event, nmsg>>

SegManual(s) ==
    /\ IsEsp32(s)
    /\ nmsg < MaxInstr
    /\ nmsg' = nmsg + 1
    /\ SegApply(s, EndOfSpeech(SegState(s)), "end_of_speech")
    /\ UNCHANGED cancel_event

SegInterrupt(s) ==
    /\ IsEsp32(s)
    /\ nmsg < MaxInstr
    /\ nmsg' = nmsg + 1
    /\ SegApply(s, Interrupt(SegState(s)), "INTERRUPT")
    /\ cancel_event' = [cancel_event EXCEPT ![s] = TRUE]

NextSegmenter ==
    \/ \E s \in Sessions : \E f \in BOOLEAN : SegFrame(s, f)
    \/ \E s \in Sessions : SegManual(s)
    \/ \E s \in Sessions : SegInterrupt(s)

SpecSegmenter == InitFor({"e"}) /\ [][NextSegmenter]_vars

\* ---------------------------------------------------------------------------
\* Connecting with any database of personalities, users and preferences.
NextResolve ==
    \/ \E s \in Sessions : Accept(s)
    \/ \E s \in Sessions : \E okLookup, okStart \in BOOLEAN :
          SessionStart(s, okLookup, okStart)

SpecResolve ==
    /\ InitAll({"d"}, "ready", OneOfEach, Databases) /\ QInit({NoVoices}, {NoText})
    /\ [][NextResolve]_vars

\* the handler of s has resolved its personality
Resolved(s) ==
    /\ hpc[s] \notin {"init", "accepted"}
    /\ exitCause[s] \notin {"no_pipeline", "storage_error"}

\* ------------------------------------------------------------ voices
\* The stores a synthesis call reads. Voice ids: "a" and "b" may be rows of the
\* voices table (kept in the order of created_at), "x" never is. A user's
\* settings_json holds at most one profile, whose id is "p".
VoiceStores ==
    LET VoiceRefs == {NoVoice, "a", "b", "x"}
        Settings ==
            [default_voice_id : {NoVoice, "a"},
             default_profile_id : {NoVoice, "p"},
             profiles : {<<>>} \cup
                        {<<[id |-> "p", voice_id |-> v]>> : v \in VoiceRefs},
             use_default_voice_everywhere : BOOLEAN,
             allow_experience_voice_override : BOOLEAN]
    IN [voices : {<<>>, <<"a">>, <<"b">>, <<"a", "b">>, <<"b", "a">>},
        user : {[exists |-> FALSE]} \cup
               [exists : {TRUE}, current_voice_id : VoiceRefs,
                settings_json : Settings],
        personality : {NoVoice, "a", "b"}]

_voice_exists(voice_id) ==
    \E i \in DOMAIN voice_store.voices : voice_store.voices[i] = voice_id

resolve_voice_id(preferences, experience_voice_id, fallback_voice_id) ==
    LET default_voice == preferences.default_voice_id IN
    IF default_voice # NoVoice /\ preferences.use_default_voice_everywhere
    THEN default_voice
    ELSE IF preferences.allow_experience_voice_override
            /\ experience_voice_id # NoVoice
    THEN experience_voice_id
    ELSE IF default_voice # NoVoice THEN default_voice
    ELSE IF experience_voice_id # NoVoice THEN experience_voice_id
    ELSE IF fallback_voice_id # NoVoice THEN fallback_voice_id
    ELSE "radio"

_resolve_voice_id_for_session(user, prefs, personality, fallback_voice_id) ==
    LET \* the profiles that end the loop: the first one named by
        \* default_profile_id that has a voice
        hits == {i \in DOMAIN prefs.profiles :
                    /\ prefs.profiles[i].id = prefs.default_profile_id
                    /\ prefs.profiles[i].voice_id # NoVoice}
        first == CHOOSE i \in hits : \A j \in hits : i <= j
    IN
    IF user.exists /\ user.current_voice_id # NoVoice
       /\ _voice_exists(user.current_voice_id)
    THEN user.current_voice_id
    ELSE IF /\ prefs.default_profile_id # NoVoice
            /\ hits # {}
            /\ _voice_exists(prefs.profiles[first].voice_id)
    THEN prefs.profiles[first].voice_id
    ELSE resolve_voice_id(prefs, personality,
                          IF fallback_voice_id # NoVoice THEN fallback_voice_id
                          ELSE "radio")

\* A synthesis call resolves its voice. The user is read by id: get_user builds
\* its User without current_voice_id, so the field keeps the default of the
\* dataclass, None. The preferences are parsed from the user's settings (the
\* defaults without a user), the fallback is the oldest row of the voices table.
ResolveVoice ==
    /\ resolved_voice_id = "unset"
    /\ LET row == voice_store.user
           u == IF ~row.exists THEN row
                ELSE [exists |-> TRUE, current_voice_id |-> NoVoice,
                      settings_json |-> row.settings_json]
           prefs == IF u.exists THEN u.settings_json
                    ELSE [default_voice_id |-> NoVoice,
                          default_profile_id |-> NoVoice,
                          profiles |-> <<>>,
                          use_default_voice_everywhere |-> TRUE,
                          allow_experience_voice_override |-> FALSE]
           fallback == IF voice_store.voices = <<>> THEN NoVoice
                       ELSE voice_store.voices[1]
       IN resolved_voice_id' =
            _resolve_voice_id_for_session(u, prefs, voice_store.personality,
                                          fallback)
    /\ UNCHANGED <<hVars, tVars, iVars, eVars, bVars, gVars, since, voice_store,
                   sVars, utterance, spoken, oVars>>

\* one synthesis call, for every store of voices and users
SpecVoice ==
    /\ InitAll({}, "ready", OneOfEach, {EmptyDb})
    /\ QInit(VoiceStores, {NoText})
    /\ [][ResolveVoice]_vars

\* ------------------------------------------------------------ hot-swap
\* switch_model, up to its lock: the new model and tokenizer are loaded in a
\* worker thread
SwitchLoad ==
    /\ switch.pc = "idle"
    /\ pipeline_models.llm < MaxVersions
    /\ switch' = [pc |-> "loaded", new |-> pipeline_models.llm + 1]
    /\ UNCHANGED <<pipeline_models, gen, lock_waiters>>
    /\ UNCHANGED <<hVars, tVars, iVars, eVars, bVars, gVars, since, voice_store,
                   resolved_voice_id, utterance, spoken, oVars>>

\* `async with pipeline.mlx_lock`: the request takes the lock when it is free
\* and nobody waits, else it waits for its turn; with the lock it replaces llm
\* and tokenizer and releases the lock, without an await in between
SwitchSwap ==
    /\ UNCHANGED <<gen, thread, orphans, other, tq, tgen, agen, syn_cancel,
                   observed, mlx_lock>>
    /\ UNCHANGED <<hVars, tVars, eVars, bVars, gVars, since, voice_store,
                   resolved_voice_id, utterance, spoken, oVars>>
    /\ \/ /\ switch.pc = "loaded"
          /\ ~(LockFree /\ lock_waiters = <<>>)
          /\ switch' = [switch EXCEPT !.pc = "waiting"]
          /\ lock_waiters' = Append(lock_waiters, "switch")
          /\ UNCHANGED pipeline_models
       \/ /\ \/ switch.pc = "loaded" /\ LockFree /\ lock_waiters = <<>>
             \/ /\ switch.pc = "waiting" /\ LockFree
                /\ Head(lock_waiters) = "switch"
          /\ pipeline_models' = [llm |-> switch.new, tokenizer |-> switch.new]
          /\ switch' = [pc |-> "idle", new |-> NULL]
          /\ lock_waiters' = IF switch.pc = "waiting" THEN Tail(lock_waiters)
                             ELSE lock_waiters

\* generate_response of a session, up to the worker thread: the prompt is built
\* with self.tokenizer, then `async with self.mlx_lock` takes the lock or waits
\* for it, then the thread runs mx_generate(self.llm, self.tokenizer, prompt)
GenerateStart(s) ==
    /\ UNCHANGED <<pipeline_models, switch, thread, orphans, other, tq, tgen,
                   agen, syn_cancel, observed>>
    /\ UNCHANGED <<hVars, tVars, eVars, bVars, gVars, since, voice_store,
                   resolved_voice_id, utterance, spoken, oVars>>
    /\ \/ /\ gen[s].pc = "idle"
          /\ ~(LockFree /\ lock_waiters = <<>>)
          /\ gen' = [gen EXCEPT ![s] =
                        [pc |-> "waiting", prompt |-> pipeline_models.tokenizer,
                         llm |-> NULL, tokenizer |-> NULL]]
          /\ lock_waiters' = Append(lock_waiters, s)
          /\ UNCHANGED mlx_lock
       \/ /\ gen[s].pc = "idle" /\ LockFree /\ lock_waiters = <<>>
          /\ gen' = [gen EXCEPT ![s] =
                        [pc |-> "run", prompt |-> pipeline_models.tokenizer,
                         llm |-> pipeline_models.llm,
                         tokenizer |-> pipeline_models.tokenizer]]
          /\ mlx_lock' = s
          /\ UNCHANGED lock_waiters
       \/ /\ gen[s].pc = "waiting" /\ LockFree /\ Head(lock_waiters) = s
          /\ gen' = [gen EXCEPT ![s].pc = "run",
                                ![s].llm = pipeline_models.llm,
                                ![s].tokenizer = pipeline_models.tokenizer]
          /\ mlx_lock' = s
          /\ lock_waiters' = Tail(lock_waiters)

\* the thread has returned: the lock is released and the response returned
GenerateDone(s) ==
    /\ gen[s].pc = "run"
    /\ gen' = [gen EXCEPT ![s] = [pc |-> "idle", prompt |-> NULL, llm |-> NULL,
                                  tokenizer |-> NULL]]
    /\ mlx_lock' = "free"
    /\ UNCHANGED <<pipeline_models, switch, lock_waiters, thread, orphans, other,
                   tq, tgen, agen, syn_cancel, observed>>
    /\ UNCHANGED <<hVars, tVars, eVars, bVars, gVars, since, voice_store,
                   resolved_voice_id, utterance, spoken, oVars>>

NextSwap ==
    \/ OtherStart
    \/ OtherDone
    \/ SwitchLoad
    \/ SwitchSwap
    \/ \E s \in Sessions : GenerateStart(s)
    \/ \E s \in Sessions : GenerateDone(s)

\* model switches and generate calls among the other callers of the facade
SpecSwap == InitWith({}, "ready", OneOfEach) /\ [][NextSwap]_vars

\* ------------------------------------------------------------ spoken text
\* A text is a sequence of pieces: the brackets, "*" for the markdown marks
\* (backtick, asterisk, underscore), a space, a letter, and the cue word "sigh"
\* in lower and in upper case.
Pieces == {"[", "]", "*", " ", "x", "sigh", "SIGH"}

\* re.sub(r"\s{2,}", " ", text).strip(); on a tag, " ".join(tag.split())
Squeeze(text) ==
    LET RECURSIVE runs(_, _)
        runs(i, after_space) ==
            IF i > Len(text) THEN <<>>
            ELSE IF text[i] = " "
            THEN (IF after_space THEN <<>> ELSE <<" ">>) \o runs(i + 1, TRUE)
            ELSE <<text[i]>> \o runs(i + 1, FALSE)
        one == runs(1, FALSE)
        left == IF one # <<>> /\ Head(one) = " " THEN Tail(one) ELSE one
    IN IF left # <<>> /\ left[Len(left)] = " "
       THEN SubSeq(left, 1, Len(left) - 1)
       ELSE left

\* re.sub over the bracketed tags, r"\[([^\]]+)\]": from the left, a "[" whose
\* next "]" is at least two places on starts a tag, which keep_or_drop replaces
\* by the lower-cased, space-normalized cue if that is an allowed cue and the
\* cues are allowed, and by nothing otherwise
SubTags(text, allow_paralinguistic) ==
    LET allowed_cues == {<<"sigh">>}
        lower(tag) == [i \in DOMAIN tag |-> IF tag[i] = "SIGH" THEN "sigh" ELSE tag[i]]
        keep_or_drop(tag) ==
            LET tag_norm == Squeeze(lower(tag)) IN
            IF allow_paralinguistic /\ tag_norm \in allowed_cues
            THEN <<"[">> \o tag_norm \o <<"]">>
            ELSE <<>>
        RECURSIVE sub(_)
        sub(i) ==
            IF i > Len(text) THEN <<>>
            ELSE LET closes == {j \in (i + 1)..Len(text) : text[j] = "]"}
                     close == CHOOSE j \in closes : \A k \in closes : j <= k
                 IN IF text[i] = "[" /\ closes # {} /\ close >= i + 2
                    THEN keep_or_drop(SubSeq(text, i + 1, close - 1))
                            \o sub(close + 1)
                    ELSE <<text[i]>> \o sub(i + 1)
    IN sub(1)

\* the mutation: the spaces are squeezed before the tags are replaced
sanitize_spaces_first(text, allow_paralinguistic) ==
    IF text = <<>> THEN text
    ELSE SubTags(Squeeze(SelectSeq(text, LAMBDA c : c # "*")),
                 allow_paralinguistic)

sanitize_spoken_text(text, allow_paralinguistic) ==
    IF text = <<>> THEN text
    ELSE Squeeze(SubTags(SelectSeq(text, LAMBDA c : c # "*"),
                         allow_paralinguistic))

\* the text is sanitized, and then the result is
Sanitize ==
    /\ Len(spoken) < 2
    /\ spoken' = Append(spoken,
                    sanitize_spoken_text(
                        IF spoken = <<>> THEN utterance.text ELSE spoken[1],
                        utterance.allow_paralinguistic))
    /\ UNCHANGED <<hVars, tVars, iVars, eVars, bVars, gVars, since, voice_store,
                   resolved_voice_id, sVars, utterance, oVars>>

\* every text of at most MaxText pieces, in both modes
SpecText ==
    /\ InitAll({}, "ready", OneOfEach, {EmptyDb})
    /\ QInit({NoVoices},
             [text : UNION {[1..n -> Pieces] : n \in 0..MaxText},
              allow_paralinguistic : BOOLEAN])
    /\ [][Sanitize]_vars

\* ------------------------------------------------------------ framing
\* The bytes of the binary messages are numbered from 0 in the order received;
\* audio_buffer holds the bytes lo .. hi-1, and a frame is named by the number
\* of its first byte.
vad_frame_bytes == ((INPUT_SAMPLE_RATE * VAD_FRAME_MS) \div 1000) * 2

\* the mutation: the remainder is dropped with the frame
DropBuffer(buf) == [buf EXCEPT !.lo = buf.hi]

\* audio_buffer = audio_buffer[vad_frame_bytes:]
DropFrame(buf) == [buf EXCEPT !.lo = buf.lo + vad_frame_bytes]

\* a binary message of n bytes: audio_buffer.extend(message["bytes"]), then the
\* loop over the complete frames starts if there is one
FramesRecv(n) ==
    /\ framer.pc = "recv"
    /\ framer.messages < MaxBinary
    /\ framer' = [framer EXCEPT
                    !.hi = @ + n, !.received = @ + n, !.messages = @ + 1,
                    !.pc = IF framer.hi + n - framer.lo >= vad_frame_bytes
                           THEN "frames" ELSE "recv"]
    /\ UNCHANGED <<hVars, tVars, iVars, eVars, bVars, gVars, since, voice_store,
                   resolved_voice_id, sVars, utterance, spoken, generated,
                   esp32_device, at_end>>

\* one round of the loop: the first vad_frame_bytes bytes are taken off the
\* buffer and classified; if the frame ends an utterance, the turn runs before
\* the next round, and an inference error in it ends the receive loop
FramesClassify(raises) ==
    /\ framer.pc = "frames"
    /\ raises => faults < MaxFaults
    /\ faults' = IF raises THEN faults + 1 ELSE faults
    /\ LET rest == DropFrame(framer) IN
       framer' = [rest EXCEPT
                    !.classified = Append(@, framer.lo),
                    !.pc = IF raises THEN "exit"
                           ELSE IF rest.hi - rest.lo >= vad_frame_bytes
                           THEN "frames" ELSE "recv"]
    /\ UNCHANGED <<hVars, tVars, iVars, eVars, nmsg, gVars, since, voice_store,
                   resolved_voice_id, sVars, utterance, spoken, generated,
                   esp32_device, at_end>>

\* the INTERRUPT instruction: audio_buffer.clear()
FramesInterrupt ==
    /\ framer.pc = "recv"
    /\ framer.base < framer.received
    /\ framer' = [framer EXCEPT !.lo = framer.hi, !.base = framer.received,
                                !.before = Len(framer.classified)]
    /\ UNCHANGED <<hVars, tVars, iVars, eVars, bVars, gVars, since, voice_store,
                   resolved_voice_id, sVars, utterance, spoken, generated,
                   esp32_device, at_end>>

NextFrames ==
    \/ \E n \in {1, vad_frame_bytes \div 2, vad_frame_bytes - 1, vad_frame_bytes,
                 vad_frame_bytes + 1, 2 * vad_frame_bytes} : FramesRecv(n)
    \/ \E raises \in BOOLEAN : FramesClassify(raises)
    \/ FramesInterrupt

\* the binary messages of an esp32 connection, split at any of these sizes
SpecFrames == InitWith({}, "ready", OneOfEach) /\ [][NextFrames]_vars

\* the handler has ended, by its `finally` or by a way out that skips it
Ended(s) == hpc[s] \in {"closed", "returned", "crashed"}

\* C11: a storage failure never ends the session: the handler does not leave by
\* an exception of a lookup made at connect, and it does not leave its receive
\* loop because a storage read made in a turn failed.
C11_StorageFailureHarmless ==
    \A s \in Sessions : exitCause[s] # "storage_error"

\* C12: once the handler of a connection whose session record was opened has
\* ended (no storage operation having failed), the connection is in no registry
\* and its session record has an end.
C12_TeardownOnEveryExit ==
    \A s \in Sessions :
        (Ended(s) /\ sessions[s].exists /\ faults = 0) =>
            /\ ESP32_WS # s
            /\ s \notin active_connections
            /\ Truthy(sessions[s].ended_at)

\* C13: for every table the calls can produce, every id and every two times, a
\* second end_session leaves the table the first call left (ended_at and
\* duration_sec are those of the first call), and end_session on an id without
\* a row leaves the table as it was.
C13_EndSessionIdempotent ==
    \A id \in Sessions :
        \A n1 \in 1..MaxClock :
            LET once == end_session(sessions, id, n1)
            IN  /\ \A n2 \in 1..MaxClock : end_session(once, id, n2) = once
                /\ ~sessions[id].exists => once = sessions
                /\ Truthy(sessions[id].ended_at) => once = sessions

\* end_session was called twice on a started session, the second time later
\* than the first, and the row has the end and the duration of the first call
C13_Witness ==
    \E id \in Sessions :
        /\ Len(end_calls[id]) = 2
        /\ end_calls[id][1] < end_calls[id][2]
        /\ sessions[id].exists
        /\ sessions[id].started_at < end_calls[id][1]
        /\ sessions[id].ended_at = end_calls[id][1]
        /\ sessions[id].duration_sec = sessions[id].ended_at - sessions[id].started_at

\* C14: a connection accepted while the models were not loaded (still loading,
\* or their initialisation failed) has no session record and was sent nothing.
C14_NotReadyIsClosed ==
    \A s \in Sessions :
        ready_at_accept[s] \in {"loading", "failed"} =>
            /\ ~sessions[s].exists
            /\ sent[s] = <<>>

\* C15: at most one embedded-device connection is live at any time, and an
\* embedded connection that is being served while the device slot holds another
\* connection has been sent SESSION.END.
C15_SingleDeviceConnection ==
    \A s, o \in Sessions :
        (s # o /\ IsEsp32(s) /\ IsEsp32(o)) =>
            /\ ~(Live(s) /\ Live(o))
            /\ (ESP32_WS = s /\ hpc[o] \notin {"init", "closed", "returned", "crashed"}) =>
                   \E i \in 1..Len(sent[o]) : sent[o][i].type = "SESSION.END"

\* C16: the segmenter finalizes an utterance exactly when SILENCE_FRAMES
\* consecutive non-speech frames follow a speech frame accumulated since the
\* last finalize or interrupt: it never holds such a run unfinalized, and an
\* utterance finalized by a frame has a speech frame and ends in that run.
C16_FinalizeAtSilenceRun ==
    \A s \in Sessions :
        /\ ~(HasSpeech(speech_frames[s]) /\ SilentTail(speech_frames[s]) >= SILENCE_FRAMES)
        /\ (seg_last[s].emitted /\ seg_last[s].input = "nonspeech") =>
               /\ HasSpeech(full_audio[s])
               /\ SilentTail(full_audio[s]) = SILENCE_FRAMES

\* C17: after an end_of_speech instruction the accumulation and the silence
\* counter are empty and the segmenter is not speaking, and an utterance was
\* emitted only if it has at least one frame.
C17_ManualFinalize ==
    \A s \in Sessions :
        seg_last[s].input = "end_of_speech" =>
            /\ speech_frames[s] = <<>>
            /\ silence_count[s] = 0
            /\ ~is_speaking[s]
            /\ seg_last[s].emitted => full_audio[s] # <<>>

\* C18: after an INTERRUPT instruction nothing was emitted and the segmenter is
\* idle: no accumulated frame, not speaking, silence counter zero.
C18_InterruptResets ==
    \A s \in Sessions :
        seg_last[s].input = "INTERRUPT" =>
            /\ ~seg_last[s].emitted
            /\ speech_frames[s] = <<>>
            /\ ~is_speaking[s]
            /\ silence_count[s] = 0

\* C19: while the desktop handler transcribes after an end_of_speech, the audio
\* given to the transcriber is the concatenation, in arrival order, of exactly
\* the payloads received since the previous end_of_speech or cancel.
C19_TranscribesWhatArrivedSince ==
    \A s \in Sessions :
        (~IsEsp32(s) /\ hpc[s] \in {"stt_lock", "stt_run"}) =>
            full_audio[s] = since[s]

\* C20: the personality resolved at connect is the active user's current
\* personality if that exists with type personality; else the personality of
\* the user's default profile, under the same condition; else the user's
\* default personality preference, under the same condition; else, and whenever
\* there is no active user or the user is unknown, the visible row of type
\* personality with the greatest creation time, then the greatest rowid (none
\* if there is no such row).
C20_PersonalityPrecedence ==
    \A s \in Sessions :
        Resolved(s) =>
            LET pid == personality_id[s]
                u == db.user
                rows == db.personalities
                known == db.active_user_id = 1 /\ u.exists
                Valid(x) == x \in 1..MaxRows /\ rows[x].exists
                               /\ rows[x].type = "personality"
                Visible(x) == Valid(x) /\ rows[x].is_visible
                c1 == u.current_personality_id
                c2 == IF \E i \in 1..Len(u.profiles) :
                              u.profiles[i].id = u.default_profile_id
                      THEN (CHOOSE pr \in {u.profiles[i] : i \in 1..Len(u.profiles)} :
                                pr.id = u.default_profile_id).personality_id
                      ELSE NULL
                c3 == u.default_personality_id
                IsFirst(x) ==
                    IF \E y \in 1..MaxRows : Visible(y)
                    THEN /\ Visible(x)
                         /\ \A y \in 1..MaxRows :
                               (Visible(y) /\ y # x) =>
                                   \/ rows[y].created_at < rows[x].created_at
                                   \/ /\ rows[y].created_at = rows[x].created_at
                                      /\ y < x
                    ELSE x = NULL
            IN  /\ (known /\ Valid(c1)) => pid = c1
                /\ (known /\ ~Valid(c1) /\ Valid(c2)) => pid = c2
                /\ (known /\ ~Valid(c1) /\ ~Valid(c2) /\ Valid(c3)) => pid = c3
                /\ (~known \/ (~Valid(c1) /\ ~Valid(c2) /\ ~Valid(c3))) => IsFirst(pid)

\* a connection of a known user whose current personality has no row, whose
\* default profile and default preference name two different personalities,
\* resolved to the personality of the profile
C20_Witness ==
    \E s \in Sessions :
        /\ Resolved(s)
        /\ db.active_user_id = 1
        /\ db.user.exists
        /\ db.user.current_personality_id = MaxRows + 1
        /\ db.user.default_profile_id = 1
        /\ Len(db.user.profiles) = 1
        /\ IsPersonality(db, db.user.profiles[1].personality_id)
        /\ IsPersonality(db, db.user.default_personality_id)
        /\ db.user.default_personality_id # db.user.profiles[1].personality_id
        /\ personality_id[s] = db.user.profiles[1].personality_id

\* C21: a user whose stored current_voice_id names an existing voice is
\* synthesized with that voice.
C21_CurrentVoiceWins ==
    (/\ resolved_voice_id # "unset"
     /\ voice_store.user.exists
     /\ voice_store.user.current_voice_id # NoVoice
     /\ _voice_exists(voice_store.user.current_voice_id)) =>
        resolved_voice_id = voice_store.user.current_voice_id

\* C22: the tokenizer that built the prompt of a running generate call and the
\* model and tokenizer that run it belong to the same model version.
C22_NoHalfSwappedGenerate ==
    \A s \in Sessions :
        gen[s].pc = "run" =>
            (gen[s].prompt = gen[s].llm /\ gen[s].llm = gen[s].tokenizer)

C24_NoBracketsWhenStripping ==
    (Len(spoken) >= 1 /\ ~utterance.allow_paralinguistic) =>
        \A i \in DOMAIN spoken[1] : spoken[1][i] \notin {"[", "]"}

\* C25: in a turn, the assistant entry is written and synthesis is begun only
\* if the guard after generation found the token not set, the transport open and
\* the sanitized text not empty, and the response notification of the turn was
\* sent.
C25_GuardBeforeLogAndSynthesis ==
    \A s \in Sessions :
        (/\ turn[s] >= 1
         /\ \/ tpc[s] \in {"syn_lock", "syn_run", "syn_drain"}
            \/ \E i \in DOMAIN log[s] : log[s][i] = Entry("ai", turn[s])) =>
            /\ generated[s] = [r |-> "text", cancel |-> FALSE, open |-> TRUE]
            /\ \E i \in DOMAIN sent[s] :
                    sent[s][i] = Msg(IF IsEsp32(s) THEN "RESPONSE.CREATED"
                                     ELSE "response", turn[s], 0, FALSE)

\* a turn has logged its assistant entry and synthesizes, and an earlier turn
\* of the session was given up at the guard
C25_Witness ==
    \E s \in Sessions :
        /\ turn[s] >= 2
        /\ tpc[s] = "syn_run"
        /\ \E i \in DOMAIN log[s] : log[s][i] = Entry("ai", turn[s])
        /\ ~\E i \in DOMAIN log[s] : log[s][i] = Entry("ai", 1)

\* C26 as stated: the frames classified are the consecutive complete frames of
\* the concatenation of all binary messages, in order and each once, and when
\* the handler waits for a message the bytes after the last classified frame,
\* fewer than a frame, are in the buffer.
C26_FramesOfWholeStream ==
    /\ \A i \in DOMAIN framer.classified :
            framer.classified[i] = (i - 1) * vad_frame_bytes
    /\ framer.pc = "recv" =>
            /\ framer.lo = Len(framer.classified) * vad_frame_bytes
            /\ framer.hi = framer.received
            /\ framer.hi - framer.lo < vad_frame_bytes

\* C26: the frames classified since the last INTERRUPT (or the start) are the
\* consecutive complete frames of the concatenation of the binary messages
\* received since then, in order and each once, and when the handler waits for
\* a message the bytes after the last of them, fewer than a frame, are in the
\* buffer.
C26_FramesSinceInterrupt ==
    /\ \A i \in DOMAIN framer.classified :
            i > framer.before =>
                framer.classified[i] =
                    framer.base + (i - framer.before - 1) * vad_frame_bytes
    /\ framer.pc = "recv" =>
            /\ framer.lo = framer.base
                    + (Len(framer.classified) - framer.before) * vad_frame_bytes
            /\ framer.hi = framer.received
            /\ framer.hi - framer.lo < vad_frame_bytes

\* a frame that lies across two messages was classified, a remainder is
\* buffered, and the handler waits for the next message
C26_Witness ==
    /\ framer.pc = "recv"
    /\ framer.messages >= 2
    /\ Len(framer.classified) >= 2
    /\ framer.lo < framer.hi
    /\ framer.base = 0
    /\ framer.received % vad_frame_bytes # 0

\* C27: the greeting ends and the handler goes on to its receive loop whether
\* generation, synthesis or sending failed or not (it is never left waiting in
\* the greeting for a stream that will not end), and the log holds of the
\* greeting either nothing or the placeholder of the user and then the greeting
\* of the assistant.
C27_GreetingThenListen ==
    \A s \in Sessions :
        /\ ~(hpc[s] = "g_syn_run" /\ thread[s] = "raised" /\ tq[s] = <<>>)
        /\ SelectSeq(log[s], LAMBDA e : TurnOf(e) = 0)
                \in {<<>>, <<Entry("user", 0), Entry("ai", 0)>>}

\* C28: when the speech engine has raised in the thread of a synthesis stream,
\* the stream ends and the lock it holds is released.
C28_RaisedStreamEnds ==
    \A s \in Sessions : (thread[s] = "raised") ~> (mlx_lock # s)

\* C29: whenever an embedded session is live and holds the device slot, the
\* persisted device status is connected with that session's id (in runs
\* without a storage failure).
C29_DeviceStatusOfSlotHolder ==
    \A s \in Sessions :
        (/\ faults = 0
         /\ IsEsp32(s)
         /\ ESP32_WS = s
         /\ Live(s)
         /\ hpc[s] \notin {"accepted", "exit"}) =>
            esp32_device = [ws_status |-> "connected", session_id |-> s]

\* C30: once the handler has ended and the record of its session has been
\* ended, the conversation log of the session and the messages sent on its
\* transport are those that its `finally` found.
C30_NothingAfterSessionEnd ==
    \A s \in Sessions :
        (hpc[s] = "closed" /\ Truthy(sessions[s].ended_at)) =>
            (log[s] = at_end[s].log /\ sent[s] = at_end[s].sent)

\* the session was ended while its response task was running, and no worker
\* thread of the cancelled task is left
C30_Witness ==
    \E s \in Sessions :
        /\ hpc[s] = "closed"
        /\ Truthy(sessions[s].ended_at)
        /\ at_end[s].task
        /\ turn[s] >= 1
        /\ orphans = 0
        /\ mlx_lock = "free"
        /\ ~Running(s)

====
